---- MODULE Spec2Model ----
(***************************************************************************)
(* A model of the osu! database parser: the scoring analytics of a score   *)
(* record (ScoreReplay::accuracy, ScoreReplay::grade) and the binary codec *)
(* (uleb128, osu_string, modifiers, score_replay).                         *)
(*                                                                         *)
(* Numbers.  The judgement counters are u16.  A sum written over u16       *)
(* operands is a u16 sum: a build with overflow checks (debug) panics when *)
(* it exceeds 65535 and a build without them (release) wraps modulo 2^16.  *)
(* The variable build says which of the two the program was compiled as.   *)
(*                                                                         *)
(* Floating point.  accuracy() divides two f64 values that are exact       *)
(* integers (or exact halves) below 2^53 and multiplies by 100.0.  The     *)
(* model keeps the quotient as the exact fraction num/den and stands for   *)
(* the f64 value 100*num/den.  Every comparison the code makes against a   *)
(* literal (0.9, 0.01, 98.0, ...) has the same outcome on the exact        *)
(* fraction as on the rounded f64 value: IEEE rounding is monotone, a      *)
(* fraction that differs from the literal differs from it by at least      *)
(* 1/(100*den) > 2^-31, far more than the rounding error, and a fraction   *)
(* equal to T/100 rounds to the literal T/100, whose product with 100.0 is *)
(* exactly T for T in {70, 80, 85, 90, 94, 95, 98, 100}.  A zero divisor   *)
(* gives NaN (0/0) or +infinity (n/0), which the model keeps as such.      *)
(***************************************************************************)
EXTENDS Integers, Sequences, FiniteSets, TLC

VARIABLES
    build,          \* "debug" (overflow checks on) or "release" (off)
    rec,            \* the ScoreReplay that accuracy() and grade() are called on
    acc,            \* what accuracy() returned, None before the call
    grd,            \* what grade() returned, None before the call
    initial_grade,  \* the value of grade()'s match on the gameplay mode
    wire,           \* the fields the byte buffer was written from
    data,           \* the byte buffer handed to a parser
    parser,         \* the parser the buffer is handed to
    out             \* what the parser returned, None before the call

vars == <<build, rec, acc, grd, initial_grade, wire, data, parser, out>>

None == [kind |-> "none"]
Panic == [kind |-> "panic"]

Builds == {"debug", "release"}

(***************************************************************************)
(* Bounds of the inputs.                                                   *)
(***************************************************************************)
\* the judgement counters take the values 0..MaxCount, a few values that
\* meet the grade thresholds, and the top values 65535-MaxBelowTop..65535
MaxCount == 1
MaxBelowTop == 0
\* the raw buffers handed to the primitive parsers have at most MaxRawLen bytes
MaxRawLen == 4
\* a sampled 64-bit value has at most MaxOnes 1 bits (or all 64)
MaxOnes == 2
\* at most MaxTrail bytes follow an encoded value
MaxTrail == 2
\* at most MaxAfter bytes follow the replay-data length of a score record
MaxAfter == 19
MaxEntries == 2
MaxPairs == 1

(***************************************************************************)
(* FlagSet<Mods>: a set of bit positions of the u32.                       *)
(***************************************************************************)
NoFail == {0}
Hidden == {3}
Nightcore == {6, 9}
Flashlight == {10}
KeyMod == {15, 16, 17, 18, 19}
FadeIn == {20}
TargetPractice == {23}
ScoreV2 == {29}

\* every flag of the enum, as the set of the bits it is made of
ModsList ==
    {{}} \cup {{b} : b \in (0..30) \ {9}} \cup {Nightcore, KeyMod}

\* FlagSet::contains: every bit of the flag is in the set
contains(mods, flag) == (mods \cap flag) = flag

(***************************************************************************)
(* u16 and f64 arithmetic.                                                 *)
(***************************************************************************)
U16Modulus == 65536

RECURSIVE SumSeq(_)
SumSeq(s) == IF s = <<>> THEN 0 ELSE Head(s) + SumSeq(Tail(s))

\* a + b + c ... over u16 operands: the value in a release build, and whether
\* a debug build panics (a partial sum exceeds 65535 exactly when the total does)
AddU16(s) ==
    [overflow |-> SumSeq(s) >= U16Modulus, value |-> SumSeq(s) % U16Modulus]

\* n as f64 / d as f64 for integers n, d >= 0
F64Div(n, d) ==
    IF d = 0
    THEN IF n = 0 THEN [kind |-> "nan"] ELSE [kind |-> "inf"]
    ELSE [kind |-> "num", num |-> n, den |-> d]

RECURSIVE GCD(_, _)
GCD(a, b) == IF b = 0 THEN a ELSE GCD(b, a % b)

\* a >= t and a > t for an accuracy a (the f64 100*num/den) and a literal t
\* that is a whole number of percent; NaN compares false, +infinity true
AccGE(a, t) ==
    CASE a.kind = "inf" -> TRUE
      [] a.kind = "num" ->
            LET g == GCD(t, 100) IN a.num * (100 \div g) >= (t \div g) * a.den
      [] OTHER -> FALSE

AccGT(a, t) ==
    CASE a.kind = "inf" -> TRUE
      [] a.kind = "num" ->
            LET g == GCD(t, 100) IN a.num * (100 \div g) > (t \div g) * a.den
      [] OTHER -> FALSE

(***************************************************************************)
(* ScoreReplay::accuracy                                                   *)
(***************************************************************************)
accuracy_standard(r, b) ==
    LET d == AddU16(<<r.hits_300, r.hits_100, r.hits_50, r.misses>>)
    IN  IF d.overflow /\ b = "debug" THEN Panic
        ELSE F64Div(300 * r.hits_300 + 100 * r.hits_100 + 50 * r.hits_50,
                    300 * d.value)

\* hits_300 + 0.5 * hits_100 over the u16 sum, both doubled to stay integral
accuracy_taiko(r, b) ==
    LET d == AddU16(<<r.hits_300, r.hits_100, r.misses>>)
    IN  IF d.overflow /\ b = "debug" THEN Panic
        ELSE F64Div(2 * r.hits_300 + r.hits_100, 2 * d.value)

\* the numerator is a u16 sum as well: the cast to f64 follows the sum
accuracy_catch(r, b) ==
    LET n == AddU16(<<r.hits_300, r.hits_100, r.hits_50>>)
        d == AddU16(<<r.hits_300, r.hits_100, r.hits_50, r.misses, r.hits_katu>>)
    IN  IF (n.overflow \/ d.overflow) /\ b = "debug" THEN Panic
        ELSE F64Div(n.value, d.value)

\* the weight of a rainbow 300 (geki), used for the divisor as well
geki_weight(mods) == IF contains(mods, ScoreV2) THEN 300 ELSE 305

accuracy_mania(r, b) ==
    LET hits_300_or_below ==
            300 * r.hits_300 + 200 * r.hits_katu + 100 * r.hits_100 + 50 * r.hits_50
        total == AddU16(<<r.hits_geki, r.hits_300, r.hits_100, r.hits_50, r.misses>>)
        w == geki_weight(r.mods)
    IN  IF total.overflow /\ b = "debug" THEN Panic
        ELSE F64Div(w * r.hits_geki + hits_300_or_below, w * total.value)

accuracy(r, b) ==
    CASE r.gameplay_mode = "Standard" -> accuracy_standard(r, b)
      [] r.gameplay_mode = "Taiko" -> accuracy_taiko(r, b)
      [] r.gameplay_mode = "Catch" -> accuracy_catch(r, b)
      [] r.gameplay_mode = "Mania" -> accuracy_mania(r, b)

(***************************************************************************)
(* ScoreReplay::grade.  Each arm of the match on the gameplay mode either  *)
(* returns from grade() at once (early) or gives the initial grade.        *)
(***************************************************************************)
Early(g) == [kind |-> "grade", early |-> TRUE, grade |-> g]
Initial(g) == [kind |-> "grade", early |-> FALSE, grade |-> g]

\* n as f64 / d as f64 >= p/q, false when the quotient is NaN (d = 0, n = 0)
RatioGE(n, d, p, q) == d # 0 /\ n * q >= p * d
RatioLE(n, d, p, q) == d # 0 /\ n * q <= p * d

\* the tiers below SS shared by Standard and Taiko, on the ratio n300/total
ratio_tiers(n300, total, misses, s_extra) ==
    IF RatioGE(n300, total, 9, 10) /\ s_extra /\ misses = 0 THEN "S"
    ELSE IF (RatioGE(n300, total, 8, 10) /\ misses = 0)
             \/ RatioGE(n300, total, 9, 10) THEN "A"
    ELSE IF (RatioGE(n300, total, 7, 10) /\ misses = 0)
             \/ RatioGE(n300, total, 8, 10) THEN "B"
    ELSE IF RatioGE(n300, total, 6, 10) THEN "C"
    ELSE "D"

\* the S row without its condition on the 50s
grade_standard_s_with_50s(r) ==
    IF r.hits_300 > 0 /\ r.hits_100 = 0 /\ r.hits_50 = 0 /\ r.misses = 0
    THEN Early("SS")
    ELSE LET total_objects == r.hits_300 + r.hits_100 + r.hits_50 + r.misses
         IN  Initial(ratio_tiers(r.hits_300, total_objects, r.misses, TRUE))

\* total_objects is a sum of f64 values here: it does not overflow
grade_standard(r) ==
    IF r.hits_300 > 0 /\ r.hits_100 = 0 /\ r.hits_50 = 0 /\ r.misses = 0
    THEN Early("SS")
    ELSE LET total_objects == r.hits_300 + r.hits_100 + r.hits_50 + r.misses
         IN  Initial(ratio_tiers(r.hits_300, total_objects, r.misses,
                                 RatioLE(r.hits_50, total_objects, 1, 100)))

\* the ratio over all four counters, the 50s included
grade_taiko_counts_50s(r) ==
    IF r.hits_300 > 0 /\ r.hits_100 = 0 /\ r.misses = 0
    THEN Early("SS")
    ELSE LET total_objects == r.hits_300 + r.hits_100 + r.hits_50 + r.misses
         IN  Initial(ratio_tiers(r.hits_300, total_objects, r.misses, TRUE))

grade_taiko(r) ==
    IF r.hits_300 > 0 /\ r.hits_100 = 0 /\ r.misses = 0
    THEN Early("SS")
    ELSE LET total_objects == r.hits_300 + r.hits_100 + r.misses
         IN  Initial(ratio_tiers(r.hits_300, total_objects, r.misses, TRUE))

grade_catch(r, b) ==
    IF r.misses = 0 /\ r.hits_katu = 0
    THEN Early("SS")
    ELSE LET a == accuracy(r, b)
         IN  IF a.kind = "panic" THEN Panic
             ELSE IF AccGT(a, 98) THEN Initial("S")
             ELSE IF AccGT(a, 94) THEN Initial("A")
             ELSE IF AccGT(a, 90) THEN Initial("B")
             ELSE IF AccGT(a, 85) THEN Initial("C")
             ELSE Initial("D")

\* && binds tighter than ||: the last disjunct, hits_300 > 0, stands alone
mania_ss(r) ==
    /\ r.hits_100 = 0
    /\ r.hits_50 = 0
    /\ r.hits_katu = 0
    /\ r.misses = 0
    /\ \/ contains(r.mods, ScoreV2) /\ r.hits_geki > 0 /\ r.hits_300 = 0
       \/ ~contains(r.mods, ScoreV2) /\ r.hits_geki > 0
       \/ r.hits_300 > 0

grade_mania(r, b) ==
    IF mania_ss(r)
    THEN Early("SS")
    ELSE LET a == accuracy(r, b)
         IN  IF a.kind = "panic" THEN Panic
             ELSE IF AccGE(a, 95) THEN Initial("S")
             ELSE IF AccGE(a, 90) THEN Initial("A")
             ELSE IF AccGE(a, 80) THEN Initial("B")
             ELSE IF AccGE(a, 70) THEN Initial("C")
             ELSE Initial("D")

grade_arm(r, b) ==
    CASE r.gameplay_mode = "Standard" -> grade_standard(r)
      [] r.gameplay_mode = "Taiko" -> grade_taiko(r)
      [] r.gameplay_mode = "Catch" -> grade_catch(r, b)
      [] r.gameplay_mode = "Mania" -> grade_mania(r, b)

contains_silver_mod_hidden_only(mods) == contains(mods, Hidden)

contains_silver_mod(mods) ==
    contains(mods, Hidden) \/ contains(mods, Flashlight) \/ contains(mods, FadeIn)

\* the final match on (initial_grade, contains_silver_mod)
silver_remap(g, silver) ==
    CASE g = "SS" /\ silver -> "SilverSS"
      [] g = "S" /\ silver -> "SilverS"
      [] OTHER -> g

grade(r, b) ==
    LET arm == grade_arm(r, b)
    IN  CASE arm.kind = "panic" -> Panic
          [] arm.early -> [kind |-> "grade", grade |-> arm.grade]
          [] OTHER ->
                [kind |-> "grade",
                 grade |-> silver_remap(arm.grade, contains_silver_mod(r.mods))]

(***************************************************************************)
(* The score records the analytics are called on.                          *)
(***************************************************************************)
GameplayModes == {"Standard", "Taiko", "Catch", "Mania"}

TopCounts == {U16Modulus - 1 - k : k \in 0..MaxBelowTop}
Counts300 == (0..MaxCount) \cup {9, 19, 49} \cup TopCounts
CountsOther == (0..MaxCount) \cup TopCounts

ModChoices ==
    {{}, NoFail, Hidden, Flashlight, FadeIn, ScoreV2, ScoreV2 \cup Hidden}

ScoreRecords ==
    [gameplay_mode : GameplayModes,
     hits_300 : Counts300,
     hits_100 : CountsOther,
     hits_50 : CountsOther,
     hits_geki : CountsOther,
     hits_katu : CountsOther,
     misses : CountsOther,
     mods : ModChoices]

NoRecord == [gameplay_mode |-> "none"]

InitScore ==
    /\ build \in Builds
    /\ rec \in ScoreRecords
    /\ acc = None
    /\ grd = None
    /\ initial_grade = None
    /\ wire = None
    /\ data = <<>>
    /\ parser = "none"
    /\ out = None

CallAccuracy ==
    /\ rec # NoRecord
    /\ acc = None
    /\ acc' = accuracy(rec, build)
    /\ UNCHANGED <<build, rec, grd, initial_grade, wire, data, parser, out>>

CallGrade ==
    /\ rec # NoRecord
    /\ grd = None
    /\ grd' = grade(rec, build)
    /\ initial_grade' = grade_arm(rec, build)
    /\ UNCHANGED <<build, rec, acc, wire, data, parser, out>>

NextScore == CallAccuracy \/ CallGrade

SpecScore == InitScore /\ [][NextScore]_vars

(***************************************************************************)
(* The binary codec.  A buffer is a sequence of bytes 0..255.  An unsigned *)
(* integer wider than 16 bits is kept as the set of the positions of its   *)
(* 1 bits (bit 0 the least significant), so that 32 and 64 bit values keep *)
(* their width.  A parser returns Ok(rest, value), Err(input, code) with   *)
(* the input slice the error refers to, or Panic.                          *)
(***************************************************************************)
Ok(rest, value) == [kind |-> "ok", rest |-> rest, value |-> value]
Err(at, code) == [kind |-> "err", input |-> at, code |-> code]

\* the ? operator: the next step runs on the rest and value of a success
Bind(r, F(_, _)) == IF r.kind = "ok" THEN F(r.rest, r.value) ELSE r

\* map(parser, f)
Map(r, F(_)) == IF r.kind = "ok" THEN Ok(r.rest, F(r.value)) ELSE r

ByteBits(byte) == {j \in 0..7 : (byte \div (2 ^ j)) % 2 = 1}
ShiftLeft(bits, shift) == {j + shift : j \in bits}
LittleEndianBits(bytes) ==
    UNION {ShiftLeft(ByteBits(bytes[k]), 8 * (k - 1)) : k \in 1..Len(bytes)}

\* the number with these 1 bits (below 2^31), by halves of the bit positions
RECURSIVE BitsSum(_, _, _)
BitsSum(bits, lo, hi) ==
    IF bits \cap (lo..hi) = {} THEN 0
    ELSE IF lo = hi THEN 2 ^ lo
    ELSE BitsSum(bits, lo, (lo + hi) \div 2) + BitsSum(bits, (lo + hi) \div 2 + 1, hi)

BitsValue(bits) == BitsSum(bits, 0, 30)

\* the number with these 1 bits is greater than n (n below 2^31)
BitsExceed(bits, n) ==
    (\E j \in bits : j > 30) \/ BitsValue(bits) > n

\* the byte is read and left in the input
u8_peek(i) == IF i = <<>> THEN Err(i, "Eof") ELSE Ok(i, Head(i))

u8_zero_at_end(i) == IF i = <<>> THEN Ok(<<>>, 0) ELSE Ok(Tail(i), Head(i))

\* nom::number::complete::u8
u8(i) == IF i = <<>> THEN Err(i, "Eof") ELSE Ok(Tail(i), Head(i))

\* nom::bytes::complete::take(count)
take(count, i) ==
    IF Len(i) < count THEN Err(i, "Eof")
    ELSE Ok(SubSeq(i, count + 1, Len(i)), SubSeq(i, 1, count))

\* take(count) for a count given by its bits
take_bits(count, i) ==
    IF BitsExceed(count, Len(i)) THEN Err(i, "Eof") ELSE take(BitsValue(count), i)

le_u16(i) == Map(take(2, i), LAMBDA d : d[1] + 256 * d[2])
le_u32(i) == Map(take(4, i), LittleEndianBits)
le_u64(i) == Map(take(8, i), LittleEndianBits)
\* the f64 is kept as its eight bytes
le_f64(i) == take(8, i)

boolean(i) == Map(u8(i), LAMBDA byte : byte # 0)

gameplay_mode(i) ==
    LET r == u8(i)
    IN  IF r.kind # "ok" THEN r
        ELSE CASE r.value = 0 -> Ok(r.rest, "Standard")
               [] r.value = 1 -> Ok(r.rest, "Taiko")
               [] r.value = 2 -> Ok(r.rest, "Catch")
               [] r.value = 3 -> Ok(r.rest, "Mania")
               [] OTHER -> Err(i, "Switch")

\* FlagSet::new_truncated: the union of the flags of the enum that the bits
\* contain (a flag made of several bits counts only when all of them are set)
new_truncated(bits) == UNION {flag \in ModsList : contains(bits, flag)}

modifiers(i) == Map(le_u32(i), new_truncated)

(***************************************************************************)
(* ranked_status                                                           *)
(***************************************************************************)
ranked_status_match_with_3(status) ==
    CASE status = 0 -> "Unknown"
      [] status = 1 -> "Unsubmitted"
      [] status = 2 -> "Pending"
      [] status = 3 -> "Ranked"
      [] status = 4 -> "Ranked"
      [] status = 5 -> "Approved"
      [] status = 6 -> "Qualified"
      [] status = 7 -> "Loved"
      [] OTHER -> "none"

\* match status { 0 => Unknown, ..., 7 => Loved, _ => return Err(Switch) }
ranked_status_match(status) ==
    CASE status = 0 -> "Unknown"
      [] status = 1 -> "Unsubmitted"
      [] status = 2 -> "Pending"
      [] status = 4 -> "Ranked"
      [] status = 5 -> "Approved"
      [] status = 6 -> "Qualified"
      [] status = 7 -> "Loved"
      [] OTHER -> "none"

ranked_status_of(input, r) ==
    IF r.kind # "ok" THEN r
    ELSE IF ranked_status_match(r.value) = "none" THEN Err(input, "Switch")
    ELSE Ok(r.rest, ranked_status_match(r.value))

ranked_status(input) == ranked_status_of(input, u8(input))

(***************************************************************************)
(* uleb128                                                                 *)
(***************************************************************************)
\* take_while(|byte| byte & 0x80 > 1): the length of the longest prefix of
\* bytes with the high bit set
RECURSIVE ContinuationLen(_)
ContinuationLen(i) ==
    IF i # <<>> /\ Head(i) >= 128 THEN 1 + ContinuationLen(Tail(i)) ELSE 0

\* (x as u64) << shift: the bits pushed past bit 63 are lost
Shl64(bits, shift) == {j \in ShiftLeft(bits, shift) : j <= 63}

group_bits_masked_ff(byte) == ByteBits(byte)

\* byte & 0x7F
group_bits(byte) == ByteBits(byte % 128)

\* result |= ((byte & 0x7F) as u64) << shift over uleb_start and uleb_final,
\* shift growing by 7: a shift of 64 or more panics in a debug build and is
\* taken modulo 64 in a release build
RECURSIVE uleb_fold(_, _, _, _)
uleb_fold(bytes, result, shift, b) ==
    IF bytes = <<>> THEN [kind |-> "value", bits |-> result]
    ELSE IF shift >= 64 /\ b = "debug" THEN Panic
    ELSE uleb_fold(Tail(bytes),
                   result \cup Shl64(group_bits(Head(bytes)), shift % 64),
                   shift + 7, b)

uleb128(input, b) ==
    LET n == ContinuationLen(input)
        uleb_start == SubSeq(input, 1, n)
        r == u8(SubSeq(input, n + 1, Len(input)))
    IN  IF r.kind # "ok" THEN r
        ELSE LET v == uleb_fold(uleb_start \o <<r.value>>, {}, 0, b)
             IN  IF v.kind = "panic" THEN Panic ELSE Ok(r.rest, v.bits)

(***************************************************************************)
(* osu_string                                                              *)
(***************************************************************************)
Continuation(s, k) == Len(s) >= k /\ s[k] \in 128..191

\* std::str::from_utf8 succeeds: the bytes are well-formed UTF-8
RECURSIVE Utf8Valid(_)
Utf8Valid(s) ==
    IF s = <<>> THEN TRUE
    ELSE LET c == s[1]
             After(k) == Utf8Valid(SubSeq(s, k + 1, Len(s)))
         IN  CASE c <= 127 -> After(1)
               [] c \in 194..223 -> Continuation(s, 2) /\ After(2)
               [] c = 224 ->
                    /\ Len(s) >= 2 /\ s[2] \in 160..191
                    /\ Continuation(s, 3) /\ After(3)
               [] c \in (225..236) \cup {238, 239} ->
                    Continuation(s, 2) /\ Continuation(s, 3) /\ After(3)
               [] c = 237 ->
                    /\ Len(s) >= 2 /\ s[2] \in 128..159
                    /\ Continuation(s, 3) /\ After(3)
               [] c = 240 ->
                    /\ Len(s) >= 2 /\ s[2] \in 144..191
                    /\ Continuation(s, 3) /\ Continuation(s, 4) /\ After(4)
               [] c \in 241..243 ->
                    /\ Continuation(s, 2) /\ Continuation(s, 3)
                    /\ Continuation(s, 4) /\ After(4)
               [] c = 244 ->
                    /\ Len(s) >= 2 /\ s[2] \in 128..143
                    /\ Continuation(s, 3) /\ Continuation(s, 4) /\ After(4)
               [] OTHER -> FALSE

\* OsuString = Option<String>; a String is its UTF-8 bytes
NoString == [some |-> FALSE]
SomeString(bytes) == [some |-> TRUE, str |-> bytes]

\* map_res(take(length), std::str::from_utf8)
utf8_string(length, i) ==
    LET r == take_bits(length, i)
    IN  IF r.kind # "ok" THEN r
        ELSE IF Utf8Valid(r.value) THEN Ok(r.rest, SomeString(r.value))
        ELSE Err(i, "MapRes")

string_head_any_nonzero(head) == IF head = 0 THEN "none" ELSE "string"

\* the match on the first byte of an osu_string
string_head(head) ==
    CASE head = 0 -> "none"
      [] head = 11 -> "string"
      [] OTHER -> "fail"

osu_string(input, b) ==
    LET h == u8(input)
    IN  IF h.kind # "ok" THEN h
        ELSE CASE string_head(h.value) = "none" -> Ok(h.rest, NoString)
               [] string_head(h.value) = "string" ->
                    LET l == uleb128(h.rest, b)
                    IN  IF l.kind # "ok" THEN l ELSE utf8_string(l.value, l.rest)
               [] OTHER -> Err(input, "Fail")

(***************************************************************************)
(* windows_datetime.  The instant is kept as its distance from             *)
(* 0001-01-01 00:00 UTC in ticks of 100 ns: ticks / 10 microseconds plus   *)
(* (ticks % 10) * 100 nanoseconds is ticks * 100 nanoseconds.  Adding a    *)
(* Duration to an OffsetDateTime panics when the sum is past the last      *)
(* instant of the year 9999.                                               *)
(***************************************************************************)
SetMax(S) == CHOOSE x \in S : \A y \in S : y <= x

\* a > b for numbers given by their bits
BitsGT(a, b) ==
    LET d == (a \ b) \cup (b \ a) IN d # {} /\ SetMax(d) \in a

\* 9999-12-31 23:59:59.9999999 in ticks: 3155378975999999999 = 0x2BCA2875F4373FFF
MaxTicks == LittleEndianBits(<<255, 63, 55, 244, 117, 40, 202, 43>>)

\* the quotient (as bits) and the remainder of a 64-bit number by d < 2^24,
\* by long division over its groups of w bits, from group k down; w is the
\* widest group for which a remainder followed by a group stays below 2^31
GroupWidth(d) == CHOOSE w \in 1..30 : 2 ^ w <= 2147483647 \div d /\ 2 ^ (w + 1) > 2147483647 \div d

Group(bits, w, k) == BitsValue({j - w * k : j \in {x \in bits : x \div w = k}})

GroupBits(n, w, k) == {w * k + j : j \in {x \in 0..(w - 1) : (n \div (2 ^ x)) % 2 = 1}}

RECURSIVE DivStep(_, _, _, _, _, _)
RECURSIVE DivSub(_, _, _, _, _, _)
DivStep(bits, d, w, k, q, r) ==
    IF k < 0 THEN [quot |-> q, rem |-> r]
    ELSE DivSub(bits, d, w, k, q, (2 ^ w) * r + Group(bits, w, k))

\* the group of the quotient is r \div d, which is 0 when r < d
DivSub(bits, d, w, k, q, r) ==
    IF r < d THEN DivStep(bits, d, w, k - 1, q, r)
    ELSE DivStep(bits, d, w, k - 1, q \cup GroupBits(r \div d, w, k), r % d)

BitsDivModBy(bits, d, w) ==
    IF bits = {} THEN [quot |-> {}, rem |-> 0]
    ELSE DivStep(bits, d, w, 63 \div w, {}, 0)

BitsDivMod(bits, d) == BitsDivModBy(bits, d, GroupWidth(d))

Min(a, b) == IF a < b THEN a ELSE b

IsLeapYear(year) == year % 4 = 0 /\ (year % 100 # 0 \/ year % 400 = 0)

\* the days of the year before each month
DaysBeforeMonth(year) ==
    IF IsLeapYear(year)
    THEN <<0, 31, 60, 91, 121, 152, 182, 213, 244, 274, 305, 335>>
    ELSE <<0, 31, 59, 90, 120, 151, 181, 212, 243, 273, 304, 334>>

\* the month that holds day number yday (from 0) of the year
MonthOf(year, yday) ==
    CHOOSE m \in 1..12 :
        /\ DaysBeforeMonth(year)[m] <= yday
        /\ (m = 12 \/ DaysBeforeMonth(year)[m + 1] > yday)

\* the date n days after 0001-01-01 in the proleptic Gregorian calendar:
\* cycles of 400 years (146097 days), 100 years (36524), 4 years (1461)
civil_month(year, yday, month) ==
    [year |-> year, month |-> month,
     day |-> yday - DaysBeforeMonth(year)[month] + 1]

civil_year(year, yday) == civil_month(year, yday, MonthOf(year, yday))

civil_4(years, r) ==
    civil_year(years + Min(r \div 365, 3) + 1, r - 365 * Min(r \div 365, 3))

civil_100(years, r) == civil_4(years + 4 * (r \div 1461), r % 1461)

civil_400(years, r) ==
    civil_100(years + 100 * Min(r \div 36524, 3), r - 36524 * Min(r \div 36524, 3))

civil_from_days(n) == civil_400(400 * (n \div 146097), n % 146097)

\* WINDOWS_EPOCH + Duration::microseconds(ticks / 10)
\*               + Duration::nanoseconds((ticks % 10) * 100):
\* the microseconds are whole seconds and a rest, the seconds are whole days
\* and a time of day; the nanoseconds added last are less than 1000 and the
\* rest of the microseconds is a multiple of 1000 ns, so nothing is carried
date_time(date, second_of_day, nanosecond) ==
    [hour |-> second_of_day \div 3600,
     minute |-> (second_of_day % 3600) \div 60,
     second |-> second_of_day % 60,
     nanosecond |-> nanosecond,
     year |-> date.year, month |-> date.month, day |-> date.day]

instant_days(days, nanosecond) ==
    date_time(civil_from_days(BitsValue(days.quot)), days.rem, nanosecond)

instant_seconds(seconds, nanoseconds) ==
    instant_days(BitsDivMod(seconds.quot, 86400), seconds.rem * 1000 + nanoseconds)

instant_microseconds(microseconds) ==
    instant_seconds(BitsDivMod(microseconds.quot, 1000000), microseconds.rem * 100)

epoch_plus_ticks(ticks) == instant_microseconds(BitsDivMod(ticks, 10))

windows_datetime_of(r) ==
    IF r.kind # "ok" THEN r
    ELSE IF BitsGT(r.value, MaxTicks) THEN Panic
    ELSE Ok(r.rest, epoch_plus_ticks(r.value))

windows_datetime(input) == windows_datetime_of(le_u64(input))

(***************************************************************************)
(* lifebar_graph.  The text is a sequence of ASCII codes.  A time is kept  *)
(* as its decimal digits without leading zeros, a health as the decimal    *)
(* number the text denotes: sign, significant digits and power of ten.     *)
(***************************************************************************)
IsDigit(c) == c \in 48..57

RECURSIVE DigitRun(_)
DigitRun(s) == IF s # <<>> /\ IsDigit(Head(s)) THEN 1 + DigitRun(Tail(s)) ELSE 0

RECURSIVE StripLeadingZeros(_)
StripLeadingZeros(d) ==
    IF Len(d) > 1 /\ Head(d) = 0 THEN StripLeadingZeros(Tail(d)) ELSE d

RECURSIVE StripTrailingZeros(_)
StripTrailingZeros(d) ==
    IF d # <<>> /\ d[Len(d)] = 0
    THEN StripTrailingZeros(SubSeq(d, 1, Len(d) - 1)) ELSE d

DigitsOf(s) == [k \in 1..Len(s) |-> s[k] - 48]

\* d < e for digit sequences of the same length
RECURSIVE DigitsLess(_, _)
DigitsLess(d, e) ==
    IF d = <<>> THEN FALSE
    ELSE Head(d) < Head(e) \/ (Head(d) = Head(e) /\ DigitsLess(Tail(d), Tail(e)))

U32MaxDigits == <<4, 2, 9, 4, 9, 6, 7, 2, 9, 5>>

\* str::parse::<u32> succeeds on these digits
FitsU32(d) ==
    LET c == StripLeadingZeros(d)
    IN  Len(c) < 10 \/ (Len(c) = 10 /\ ~DigitsLess(U32MaxDigits, c))

\* map_res(digit1, |s| s.parse::<u32>())
lifebar_time(s) ==
    LET n == DigitRun(s)
    IN  IF n = 0 THEN Err(s, "Digit")
        ELSE IF ~FitsU32(DigitsOf(SubSeq(s, 1, n))) THEN Err(s, "MapRes")
        ELSE Ok(SubSeq(s, n + 1, Len(s)), StripLeadingZeros(DigitsOf(SubSeq(s, 1, n))))

\* tag(t)
tag(t, s) ==
    IF Len(s) >= Len(t) /\ SubSeq(s, 1, Len(t)) = t
    THEN Ok(SubSeq(s, Len(t) + 1, Len(s)), t)
    ELSE Err(s, "Tag")

ToLower(c) == IF c \in 65..90 THEN c + 32 ELSE c

\* tag_no_case(t), t in lower case
tag_no_case(t, s) ==
    IF Len(s) >= Len(t) /\ [k \in 1..Len(t) |-> ToLower(s[k])] = t
    THEN Ok(SubSeq(s, Len(t) + 1, Len(s)), t)
    ELSE Err(s, "Tag")

\* the decimal number sign * digits * 10^exp10, digits without leading or
\* trailing zeros (zero is the empty sequence)
Decimal(negative, digits, exp10) ==
    LET t == StripTrailingZeros(digits)
        c == IF t = <<>> THEN <<>> ELSE StripLeadingZeros(t)
    IN  IF c = <<>> \/ c = <<0>>
        THEN [kind |-> "decimal", negative |-> negative, digits |-> <<>>, exp10 |-> 0]
        ELSE [kind |-> "decimal", negative |-> negative, digits |-> c,
              exp10 |-> exp10 + (Len(digits) - Len(t))]

RECURSIVE DigitsValue(_)
DigitsValue(d) ==
    IF d = <<>> THEN 0 ELSE 10 * DigitsValue(SubSeq(d, 1, Len(d) - 1)) + d[Len(d)]

\* digit0: the leading decimal digits, and what follows them
TakeDigits(s) == SubSeq(s, 1, DigitRun(s))
DropDigits(s) == SubSeq(s, DigitRun(s) + 1, Len(s))

\* cut(digit1) of the exponent: an 'e' without digits is a Failure
float_exponent_digits(negative, digits, nf, exp_negative, s5) ==
    LET e == DigitsValue(DigitsOf(TakeDigits(s5)))
    IN  IF DigitRun(s5) = 0
        THEN [kind |-> "failure", input |-> s5, code |-> "Digit"]
        ELSE Ok(DropDigits(s5),
                Decimal(negative, digits, (IF exp_negative THEN 0 - e ELSE e) - nf))

\* opt(([eE], opt([+-]), cut(digit1))), after a mantissa with a digit in it
float_exponent(s, negative, int_digits, frac_digits, s3) ==
    IF int_digits = <<>> /\ frac_digits = <<>> THEN Err(s, "Float")
    ELSE IF s3 # <<>> /\ Head(s3) \in {69, 101}
    THEN IF Tail(s3) # <<>> /\ Head(Tail(s3)) \in {43, 45}
         THEN float_exponent_digits(negative, int_digits \o frac_digits,
                                    Len(frac_digits), Head(Tail(s3)) = 45,
                                    Tail(Tail(s3)))
         ELSE float_exponent_digits(negative, int_digits \o frac_digits,
                                    Len(frac_digits), FALSE, Tail(s3))
    ELSE Ok(s3, Decimal(negative, int_digits \o frac_digits, 0 - Len(frac_digits)))

\* opt('.' digits?) after the integer digits, or '.' digits without them
float_fraction(s, negative, int_digits, s2) ==
    IF s2 # <<>> /\ Head(s2) = 46
    THEN float_exponent(s, negative, int_digits, DigitsOf(TakeDigits(Tail(s2))),
                        DropDigits(Tail(s2)))
    ELSE float_exponent(s, negative, int_digits, <<>>, s2)

float_mantissa(s, negative, s1) ==
    float_fraction(s, negative, DigitsOf(TakeDigits(s1)), DropDigits(s1))

\* recognize_float: [+-]? (digits ('.' digits?)? | '.' digits) ([eE] [+-]? digits)?
recognize_float(s) ==
    IF s # <<>> /\ Head(s) \in {43, 45}
    THEN float_mantissa(s, Head(s) = 45, Tail(s))
    ELSE float_mantissa(s, FALSE, s)

\* nom::number::complete::float: recognize_float, or "nan", "inf", "infinity"
\* in any case, then str::parse::<f32>
float_or_exceptions(s, r) ==
    IF r.kind # "err" THEN r
    ELSE IF tag_no_case(<<110, 97, 110>>, s).kind = "ok"
         THEN Ok(SubSeq(s, 4, Len(s)), [kind |-> "nan"])
    ELSE IF tag_no_case(<<105, 110, 102>>, s).kind = "ok"
         THEN Ok(SubSeq(s, 4, Len(s)), [kind |-> "inf", negative |-> FALSE])
    ELSE Err(s, "Tag")

float(s) == float_or_exceptions(s, recognize_float(s))

\* terminated(separated_pair(time, tag("|"), float), tag(","))
lifebar_point(s) ==
    Bind(lifebar_time(s), LAMBDA s1, time :
    Bind(tag(<<124>>, s1), LAMBDA s2, bar :
    Bind(float(s2), LAMBDA s3, health :
    Bind(tag(<<44>>, s3), LAMBDA s4, comma :
    Ok(s4, <<time, health>>)))))

\* the point p behind the points that follow it
many0_push_behind(p, more) ==
    IF more.kind # "ok" THEN more ELSE Ok(more.rest, more.value \o <<p.value>>)

\* the point p in front of the points that follow it
many0_push(p, more) ==
    IF more.kind # "ok" THEN more ELSE Ok(more.rest, <<p.value>> \o more.value)

\* many0: points are collected until one fails with an Error; a Failure fails
\* the whole parser
RECURSIVE lifebar_graph_points(_)
many0_after(s, p) ==
    CASE p.kind = "err" -> Ok(s, <<>>)
      [] p.kind = "failure" -> p
      [] OTHER -> many0_push(p, lifebar_graph_points(p.rest))

lifebar_graph_points(s) == many0_after(s, lifebar_point(s))

NoLifebar == [some |-> FALSE]

\* an error of the points parser is reported at the input after the string
lifebar_graph_of(rest, p) ==
    IF p.kind = "ok"
    THEN Ok(rest, [some |-> TRUE, points |-> p.value])
    ELSE [kind |-> p.kind, input |-> rest, code |-> p.code]

lifebar_graph_string(r) ==
    IF r.kind # "ok" THEN r
    ELSE IF ~r.value.some THEN Ok(r.rest, NoLifebar)
    ELSE lifebar_graph_of(r.rest, lifebar_graph_points(r.value.str))

lifebar_graph(input, b) == lifebar_graph_string(osu_string(input, b))

\* Display of a u32: its decimal digits, without leading zeros
display_u32(time) == [k \in 1..Len(time) |-> time[k] + 48]

Zeros(n) == [k \in 1..n |-> 48]

\* Display of a finite f32 that is not zero: the shortest decimal text that
\* parses back to the same f32, never with an exponent.  For a number of at
\* most six significant digits that text has the number's own digits.
display_decimal(digits, point) ==
    IF point >= Len(digits) THEN display_u32(digits) \o Zeros(point - Len(digits))
    ELSE IF point > 0
    THEN display_u32(SubSeq(digits, 1, point)) \o <<46>>
         \o display_u32(SubSeq(digits, point + 1, Len(digits)))
    ELSE <<48, 46>> \o Zeros(0 - point) \o display_u32(digits)

display_sign(negative) == IF negative THEN <<45>> ELSE <<>>

\* Display of an f32: "NaN", "inf", "-inf", "0", "-0", or the decimal text
display_f32(health) ==
    CASE health.kind = "nan" -> <<78, 97, 78>>
      [] health.kind = "inf" -> display_sign(health.negative) \o <<105, 110, 102>>
      [] health.digits = <<>> -> display_sign(health.negative) \o <<48>>
      [] OTHER -> display_sign(health.negative)
                  \o display_decimal(health.digits, Len(health.digits) + health.exp10)

\* format!("{}|{},", t, h)
display_point(p) == display_u32(p[1]) \o <<124>> \o display_f32(p[2]) \o <<44>>

\* impl Display for LifebarGraph: the points' texts, one after the other
RECURSIVE display_lifebar_graph(_)
display_lifebar_graph(points) ==
    IF points = <<>> THEN <<>>
    ELSE display_point(Head(points)) \o display_lifebar_graph(Tail(points))

(***************************************************************************)
(* score_replay                                                            *)
(***************************************************************************)
AllOnes32 == 0..31

NoneOpt == [some |-> FALSE]
SomeOpt(v) == [some |-> TRUE, value |-> v]

has_replay_data_unless_zero(replay_data_length) == replay_data_length # {}

\* replay_data_length != 0xFFFFFFFF
has_replay_data(replay_data_length) == replay_data_length # AllOnes32

has_additional_mod_info_cinema(mods) == contains(mods, {22})

\* mods.contains(Mods::TargetPractice)
has_additional_mod_info(mods) == contains(mods, TargetPractice)

\* cond(replay_data_length != 0xFFFFFFFF, map(take(length as usize), to_vec))
replay_data_field(replay_data_length, i) ==
    IF has_replay_data(replay_data_length)
    THEN Map(take_bits(replay_data_length, i), SomeOpt)
    ELSE Ok(i, NoneOpt)

\* cond(mods.contains(Mods::TargetPractice), le_f64)
additional_mod_info_field(mods, i) ==
    IF has_additional_mod_info(mods)
    THEN Map(le_f64(i), SomeOpt)
    ELSE Ok(i, NoneOpt)

\* the fields parsed so far with one more, or the error of its parser
Put(fields, name, r) ==
    IF r.kind = "ok" THEN Ok(r.rest, fields @@ (name :> r.value)) ELSE r

\* the next field's parser on what the fields before left; the first error
\* (or panic) is the result
Field(st, name, P(_, _)) ==
    IF st.kind = "ok" THEN Put(st.value, name, P(st.value, st.rest)) ELSE st

\* the ScoreReplay that is built: replay_data_length is a local of the parser
ScoreReplay(st) ==
    IF st.kind = "ok"
    THEN Ok(st.rest, [n \in DOMAIN st.value \ {"replay_data_length"} |-> st.value[n]])
    ELSE st

score_replay(input, b) ==
    ScoreReplay(
    Field(Field(Field(Field(Field(Field(Field(
    Field(Field(Field(Field(Field(Field(Field(
    Field(Field(Field(Field(Field(Field(Field(
        Ok(input, <<>>),
        "gameplay_mode", LAMBDA f, i : gameplay_mode(i)),
        "version", LAMBDA f, i : le_u32(i)),
        "beatmap_md5", LAMBDA f, i : osu_string(i, b)),
        "player_name", LAMBDA f, i : osu_string(i, b)),
        "replay_md5", LAMBDA f, i : osu_string(i, b)),
        "hits_300", LAMBDA f, i : le_u16(i)),
        "hits_100", LAMBDA f, i : le_u16(i)),
        "hits_50", LAMBDA f, i : le_u16(i)),
        "hits_geki", LAMBDA f, i : le_u16(i)),
        "hits_katu", LAMBDA f, i : le_u16(i)),
        "misses", LAMBDA f, i : le_u16(i)),
        "score", LAMBDA f, i : le_u32(i)),
        "max_combo", LAMBDA f, i : le_u16(i)),
        "is_perfect_combo", LAMBDA f, i : boolean(i)),
        "mods", LAMBDA f, i : modifiers(i)),
        "lifebar_graph", LAMBDA f, i : lifebar_graph(i, b)),
        "timestamp", LAMBDA f, i : windows_datetime(i)),
        "replay_data_length", LAMBDA f, i : le_u32(i)),
        "replay_data", LAMBDA f, i : replay_data_field(f.replay_data_length, i)),
        "online_score_id", LAMBDA f, i : le_u64(i)),
        "additional_mod_info", LAMBDA f, i : additional_mod_info_field(f.mods, i)))

(***************************************************************************)
(* beatmap_listing: the osu.db file.  An f32 is kept as the four bytes of  *)
(* its IEEE 754 pattern, least significant byte first.                     *)
(***************************************************************************)
\* the f32 is kept as its four bytes
le_f32(i) == take(4, i)

\* the position of the highest 1 bit of a byte that is not 0
HighBit(byte) == CHOOSE e \in 0..7 : 2 ^ e <= byte /\ byte < 2 ^ (e + 1)

\* the pattern of a number n * 2^0 with 8 bits at most: exponent 127 + e,
\* the bits below the leading one at the top of the 23 bit mantissa
F32Pattern(byte) ==
    IF byte = 0 THEN 0
    ELSE (127 + HighBit(byte)) * (2 ^ 23)
            + (byte - 2 ^ HighBit(byte)) * (2 ^ (23 - HighBit(byte)))

BytesOfPattern(p) ==
    <<p % 256, (p \div 256) % 256, (p \div 65536) % 256, p \div 16777216>>

\* b as f32
u8_as_f32(byte) == BytesOfPattern(F32Pattern(byte))

is_byte_difficulty_before_2019(version) == ~BitsExceed(version, 20191105)

\* version < 20140609
is_byte_difficulty(version) == ~BitsExceed(version, 20140608)

\* parse_difficulty: map(u8, |b| b as f32) or le_f32
parse_difficulty(version, i) ==
    IF is_byte_difficulty(version) THEN Map(u8(i), u8_as_f32) ELSE le_f32(i)

\* tag(&[0x08]) le_u32 tag(&[0x0d]) taken without a look at the second byte
int_double_pair_any_second_marker(input) ==
    Bind(tag(<<8>>, input), LAMBDA i1, t1 :
    Bind(le_u32(i1), LAMBDA i2, int :
    Bind(u8(i2), LAMBDA i3, t2 :
    Bind(le_f64(i3), LAMBDA i4, double : Ok(i4, <<int, double>>)))))

\* preceded(tag(&[0x08]), le_u32), then preceded(tag(&[0x0d]), le_f64)
int_double_pair(input) ==
    Bind(tag(<<8>>, input), LAMBDA i1, t1 :
    Bind(le_u32(i1), LAMBDA i2, int :
    Bind(tag(<<13>>, i2), LAMBDA i3, t2 :
    Bind(le_f64(i3), LAMBDA i4, double : Ok(i4, <<int, double>>)))))

\* the number of rounds of the loop of length_count: an element takes one
\* byte at least, so a count above the bytes that are left fails in the round
\* after them
CountRounds(count, input) ==
    IF BitsExceed(count, Len(input)) THEN Len(input) + 1 ELSE BitsValue(count)

star_rating(pair) == [mods |-> new_truncated(pair[1]), rating |-> pair[2]]

\* map(int_double_pair, |(i, d)| (new_truncated(i), d))
star_rating_pair(input) == Map(int_double_pair(input), star_rating)

\* the loop of length_count over star rating pairs: the parser on what the
\* pairs before left; the error of a pair is the result as it is
\* (Error::append keeps the inner error)
RECURSIVE star_ratings_loop(_, _, _)
star_ratings_next(n, res, r) ==
    IF r.kind = "ok" THEN star_ratings_loop(n - 1, r.rest, Append(res, r.value))
    ELSE r

star_ratings_loop(n, input, res) ==
    IF n = 0 THEN Ok(input, res)
    ELSE star_ratings_next(n, res, star_rating_pair(input))

star_ratings_of(c) ==
    IF c.kind = "ok"
    THEN star_ratings_loop(CountRounds(c.value, c.rest), c.rest, <<>>)
    ELSE c

\* length_count(le_u32, map(int_double_pair, ...))
star_ratings(input) == star_ratings_of(le_u32(input))

\* map(tuple((le_f64, le_f64, boolean)), ...)
timing_point(input) ==
    Bind(le_f64(input), LAMBDA i1, bpm :
    Bind(le_f64(i1), LAMBDA i2, song_offset :
    Bind(boolean(i2), LAMBDA i3, inherited :
        Ok(i3, [bpm |-> bpm, song_offset |-> song_offset, inherited |-> inherited]))))

RECURSIVE timing_points_loop(_, _, _)
timing_points_next(n, res, r) ==
    IF r.kind = "ok" THEN timing_points_loop(n - 1, r.rest, Append(res, r.value))
    ELSE r

timing_points_loop(n, input, res) ==
    IF n = 0 THEN Ok(input, res)
    ELSE timing_points_next(n, res, timing_point(input))

timing_points_of(c) ==
    IF c.kind = "ok"
    THEN timing_points_loop(CountRounds(c.value, c.rest), c.rest, <<>>)
    ELSE c

\* length_count(le_u32, timing_point)
timing_points(input) == timing_points_of(le_u32(input))

\* version < 20191106
has_size(version) == ~BitsExceed(version, 20191105)

\* cond(version < 20191106, le_u32)
size_field(version, i) ==
    IF has_size(version) THEN Map(le_u32(i), SomeOpt) ELSE Ok(i, NoneOpt)

has_unused_f32_before_2019(version) == ~BitsExceed(version, 20191105)

\* version < 20140609
has_unused_f32(version) == ~BitsExceed(version, 20140608)

\* cond(version < 20140609, le_f32)
unused_f32_field(version, i) ==
    IF has_unused_f32(version) THEN Map(le_f32(i), SomeOpt) ELSE Ok(i, NoneOpt)

\* the fields of an entry in the order they are parsed in, the two unused
\* ones with them
EntryFields ==
    <<"size", "artist_name", "artist_name_unicode", "song_title",
      "song_title_unicode", "creator_name", "difficulty", "audio_filename",
      "md5", "beatmap_filename", "ranked_status", "hitcircle_count",
      "slider_count", "spinner_count", "last_modification_time",
      "approach_rate", "circle_size", "hp_drain", "overall_difficulty",
      "slider_velocity", "star_ratings_std", "star_ratings_taiko",
      "star_ratings_ctb", "star_ratings_mania", "drain_time", "total_time",
      "audio_preview_time", "timing_points", "difficulty_id", "beatmap_id",
      "thread_id", "grade_std", "grade_taiko", "grade_catch", "grade_mania",
      "local_offset", "stack_leniency", "gameplay_mode", "song_source",
      "song_tags", "online_offset", "font", "is_unplayed", "last_played",
      "is_osz2", "folder_name", "last_checked_online",
      "ignore_beatmap_hitsounds", "ignore_beatmap_skin",
      "disable_storyboard", "disable_video", "unused_f32", "unused_u32",
      "mania_scroll_speed">>

\* the parser of each field of beatmap_entry(version)
entry_field(version, name, i, b) ==
    CASE name = "size" -> size_field(version, i)
      [] name = "artist_name" -> osu_string(i, b)
      [] name = "artist_name_unicode" -> osu_string(i, b)
      [] name = "song_title" -> osu_string(i, b)
      [] name = "song_title_unicode" -> osu_string(i, b)
      [] name = "creator_name" -> osu_string(i, b)
      [] name = "difficulty" -> osu_string(i, b)
      [] name = "audio_filename" -> osu_string(i, b)
      [] name = "md5" -> osu_string(i, b)
      [] name = "beatmap_filename" -> osu_string(i, b)
      [] name = "ranked_status" -> ranked_status(i)
      [] name = "hitcircle_count" -> le_u16(i)
      [] name = "slider_count" -> le_u16(i)
      [] name = "spinner_count" -> le_u16(i)
      [] name = "last_modification_time" -> windows_datetime(i)
      [] name = "approach_rate" -> parse_difficulty(version, i)
      [] name = "circle_size" -> parse_difficulty(version, i)
      [] name = "hp_drain" -> parse_difficulty(version, i)
      [] name = "overall_difficulty" -> parse_difficulty(version, i)
      [] name = "slider_velocity" -> le_f64(i)
      [] name = "star_ratings_std" -> star_ratings(i)
      [] name = "star_ratings_taiko" -> star_ratings(i)
      [] name = "star_ratings_ctb" -> star_ratings(i)
      [] name = "star_ratings_mania" -> star_ratings(i)
      [] name = "drain_time" -> le_u32(i)
      [] name = "total_time" -> le_u32(i)
      [] name = "audio_preview_time" -> le_u32(i)
      [] name = "timing_points" -> timing_points(i)
      [] name = "difficulty_id" -> le_u32(i)
      [] name = "beatmap_id" -> le_u32(i)
      [] name = "thread_id" -> le_u32(i)
      [] name = "grade_std" -> u8(i)
      [] name = "grade_taiko" -> u8(i)
      [] name = "grade_catch" -> u8(i)
      [] name = "grade_mania" -> u8(i)
      [] name = "local_offset" -> le_u16(i)
      [] name = "stack_leniency" -> le_f32(i)
      [] name = "gameplay_mode" -> gameplay_mode(i)
      [] name = "song_source" -> osu_string(i, b)
      [] name = "song_tags" -> osu_string(i, b)
      [] name = "online_offset" -> le_u16(i)
      [] name = "font" -> osu_string(i, b)
      [] name = "is_unplayed" -> boolean(i)
      [] name = "last_played" -> windows_datetime(i)
      [] name = "is_osz2" -> boolean(i)
      [] name = "folder_name" -> osu_string(i, b)
      [] name = "last_checked_online" -> windows_datetime(i)
      [] name = "ignore_beatmap_hitsounds" -> boolean(i)
      [] name = "ignore_beatmap_skin" -> boolean(i)
      [] name = "disable_storyboard" -> boolean(i)
      [] name = "disable_video" -> boolean(i)
      [] name = "unused_f32" -> unused_f32_field(version, i)
      [] name = "unused_u32" -> le_u32(i)
      [] name = "mania_scroll_speed" -> u8(i)

\* fields lo..hi of an entry on what the fields before left, one half of
\* them after the other; the first error (or panic) is the result
RECURSIVE entry_fields(_, _, _, _, _)
entry_fields(version, st, lo, hi, b) ==
    IF st.kind # "ok" THEN st
    ELSE IF lo = hi
    THEN Put(st.value, EntryFields[lo],
             entry_field(version, EntryFields[lo], st.rest, b))
    ELSE entry_fields(version,
                      entry_fields(version, st, lo, (lo + hi) \div 2, b),
                      (lo + hi) \div 2 + 1, hi, b)

\* the BeatmapEntry that is built: the two unused values are dropped
BeatmapEntry(st) ==
    IF st.kind = "ok"
    THEN Ok(st.rest,
            [n \in DOMAIN st.value \ {"unused_f32", "unused_u32"} |-> st.value[n]])
    ELSE st

\* beatmap_entry(version)
beatmap_entry(version, input, b) ==
    BeatmapEntry(entry_fields(version, Ok(input, <<>>), 1, Len(EntryFields), b))

RECURSIVE beatmaps_loop(_, _, _, _, _)
beatmaps_next(version, n, res, r, b) ==
    IF r.kind = "ok"
    THEN beatmaps_loop(version, n - 1, r.rest, Append(res, r.value), b)
    ELSE r

beatmaps_loop(version, n, input, res, b) ==
    IF n = 0 THEN Ok(input, res)
    ELSE beatmaps_next(version, n, res, beatmap_entry(version, input, b), b)

beatmaps_of(version, c, b) ==
    IF c.kind = "ok"
    THEN beatmaps_loop(version, CountRounds(c.value, c.rest), c.rest, <<>>, b)
    ELSE c

\* length_count(le_u32, beatmap_entry(version))
beatmaps_field(version, input, b) == beatmaps_of(version, le_u32(input), b)

beatmap_listing(input, b) ==
    Field(Field(Field(Field(Field(Field(Field(
        Ok(input, <<>>),
        "version", LAMBDA f, i : le_u32(i)),
        "folder_count", LAMBDA f, i : le_u32(i)),
        "account_unlocked", LAMBDA f, i : boolean(i)),
        "account_unlock_date", LAMBDA f, i : windows_datetime(i)),
        "player_name", LAMBDA f, i : osu_string(i, b)),
        "beatmaps", LAMBDA f, i : beatmaps_field(f.version, i, b)),
        "user_permissions", LAMBDA f, i : le_u32(i))

(***************************************************************************)
(* collection.db and scores.db: a version and an array of entries behind a *)
(* u32 count; every entry is a string and an array behind a u32 count.     *)
(***************************************************************************)
RECURSIVE beatmap_md5s_loop(_, _, _, _)
beatmap_md5s_next(n, res, r, b) ==
    IF r.kind = "ok" THEN beatmap_md5s_loop(n - 1, r.rest, Append(res, r.value), b)
    ELSE r

beatmap_md5s_loop(n, input, res, b) ==
    IF n = 0 THEN Ok(input, res)
    ELSE beatmap_md5s_next(n, res, osu_string(input, b), b)

beatmap_md5s_of(c, b) ==
    IF c.kind = "ok"
    THEN beatmap_md5s_loop(CountRounds(c.value, c.rest), c.rest, <<>>, b)
    ELSE c

\* length_count(le_u32, osu_string)
beatmap_md5s(input, b) == beatmap_md5s_of(le_u32(input), b)

collection(input, b) ==
    Bind(osu_string(input, b), LAMBDA i1, name :
    Bind(beatmap_md5s(i1, b), LAMBDA i2, md5s :
        Ok(i2, [name |-> name, beatmap_md5s |-> md5s])))

RECURSIVE collections_loop(_, _, _, _)
collections_next(n, res, r, b) ==
    IF r.kind = "ok" THEN collections_loop(n - 1, r.rest, Append(res, r.value), b)
    ELSE r

collections_loop(n, input, res, b) ==
    IF n = 0 THEN Ok(input, res)
    ELSE collections_next(n, res, collection(input, b), b)

collections_of(c, b) ==
    IF c.kind = "ok"
    THEN collections_loop(CountRounds(c.value, c.rest), c.rest, <<>>, b)
    ELSE c

\* length_count(le_u32, collection)
collections(input, b) == collections_of(le_u32(input), b)

collection_listing(input, b) ==
    Bind(le_u32(input), LAMBDA i1, version :
    Bind(collections(i1, b), LAMBDA i2, cs :
        Ok(i2, [version |-> version, collections |-> cs])))

RECURSIVE scores_loop(_, _, _, _)
scores_next(n, res, r, b) ==
    IF r.kind = "ok" THEN scores_loop(n - 1, r.rest, Append(res, r.value), b)
    ELSE r

scores_loop(n, input, res, b) ==
    IF n = 0 THEN Ok(input, res)
    ELSE scores_next(n, res, score_replay(input, b), b)

scores_of(c, b) ==
    IF c.kind = "ok"
    THEN scores_loop(CountRounds(c.value, c.rest), c.rest, <<>>, b)
    ELSE c

\* length_count(le_u32, score_replay)
scores(input, b) == scores_of(le_u32(input), b)

beatmap_scores(input, b) ==
    Bind(osu_string(input, b), LAMBDA i1, md5 :
    Bind(scores(i1, b), LAMBDA i2, ss :
        Ok(i2, [md5 |-> md5, scores |-> ss])))

RECURSIVE beatmap_scores_loop(_, _, _, _)
beatmap_scores_next(n, res, r, b) ==
    IF r.kind = "ok" THEN beatmap_scores_loop(n - 1, r.rest, Append(res, r.value), b)
    ELSE r

beatmap_scores_loop(n, input, res, b) ==
    IF n = 0 THEN Ok(input, res)
    ELSE beatmap_scores_next(n, res, beatmap_scores(input, b), b)

beatmap_scores_of(c, b) ==
    IF c.kind = "ok"
    THEN beatmap_scores_loop(CountRounds(c.value, c.rest), c.rest, <<>>, b)
    ELSE c

\* length_count(le_u32, beatmap_scores)
beatmap_scores_array(input, b) == beatmap_scores_of(le_u32(input), b)

score_listing(input, b) ==
    Bind(le_u32(input), LAMBDA i1, version :
    Bind(beatmap_scores_array(i1, b), LAMBDA i2, bs :
        Ok(i2, [version |-> version, beatmap_scores |-> bs])))

(***************************************************************************)
(* The primitive parsers applied to byte buffers: every buffer of at most  *)
(* MaxRawLen bytes over ByteAlphabet, and the canonical ULEB128 encodings  *)
(* of sampled 64-bit values followed by trailing bytes.                    *)
(***************************************************************************)
\* 0x00, 0x01, 0x02, 0x0b, 'A', 0x80, 0xA9, 0xC3 (0xC3 0xA9 is U+00E9), 0xFF
ByteAlphabet == {0, 1, 2, 11, 65, 128, 169, 195, 255}

RECURSIVE SeqsUpTo(_, _)
SeqsUpTo(S, n) ==
    IF n = 0 THEN {<<>>}
    ELSE LET shorter == SeqsUpTo(S, n - 1)
         IN  shorter \cup {<<x>> \o s : x \in S, s \in {t \in shorter : Len(t) = n - 1}}

\* the bit positions where groups of 7 bits begin and end
SampleBits == {7 * k : k \in 0..9} \cup {7 * k + 6 : k \in 0..8}
U64Samples ==
    {S \in SUBSET SampleBits : Cardinality(S) <= MaxOnes} \cup {0..63}

TrailBytes == {0, 128, 255}

\* the canonical ULEB128 encoding of the value with these 1 bits: 7 bits a
\* byte, least significant group first, the high bit set on all but the last
RECURSIVE EncodeUleb(_)
EncodeUleb(bits) ==
    LET low == BitsValue({j \in bits : j < 7})
        high == {j - 7 : j \in {x \in bits : x >= 7}}
    IN  IF high = {} THEN <<low>> ELSE <<low + 128>> \o EncodeUleb(high)

NatBits(n) == {j \in 0..30 : (n \div (2 ^ j)) % 2 = 1}

PrimWires ==
    [kind : {"raw"}, bytes : SeqsUpTo(ByteAlphabet, MaxRawLen)]
    \cup [kind : {"uleb"}, n : U64Samples, trail : SeqsUpTo(TrailBytes, MaxTrail)]

WireBytes(w) ==
    CASE w.kind = "raw" -> w.bytes
      [] w.kind = "uleb" -> EncodeUleb(w.n) \o w.trail

InitPrim ==
    /\ build \in Builds
    /\ rec = NoRecord
    /\ acc = None
    /\ grd = None
    /\ initial_grade = None
    /\ wire \in PrimWires
    /\ data = WireBytes(wire)
    /\ parser = "none"
    /\ out = None

CallUleb128 ==
    /\ parser = "none"
    /\ parser' = "uleb128"
    /\ out' = uleb128(data, build)
    /\ UNCHANGED <<build, rec, acc, grd, initial_grade, wire, data>>

CallOsuString ==
    /\ parser = "none"
    /\ parser' = "osu_string"
    /\ out' = osu_string(data, build)
    /\ UNCHANGED <<build, rec, acc, grd, initial_grade, wire, data>>

NextPrim == CallUleb128 \/ CallOsuString

SpecPrim == InitPrim /\ [][NextPrim]_vars

(***************************************************************************)
(* score_replay applied to the bytes of written score records.  The fields *)
(* up to the timestamp are written whole; the replay-data length is        *)
(* followed by 0..MaxAfter bytes, each different from the others, so that  *)
(* the blob, the online score id and the additional mod information may be *)
(* present, cut short or followed by other bytes.                          *)
(***************************************************************************)
EncodeString(os) ==
    IF os.some THEN <<11>> \o EncodeUleb(NatBits(Len(os.str))) \o os.str ELSE <<0>>

\* "1|1,"
LifebarOnePoint == <<49, 124, 49, 44>>

\* 638261550200000000 ticks (2023-07-28 15:30:20 UTC), and 2^64 - 1 ticks
TicksChoices ==
    {<<0, 14, 118, 141, 127, 143, 219, 8>>,
     <<255, 255, 255, 255, 255, 255, 255, 255>>}

\* no bit, TargetPractice, TargetPractice and Hidden, Cinema, bit 31, all bits
WireModsChoices ==
    {<<0, 0, 0, 0>>, <<0, 0, 128, 0>>, <<8, 0, 128, 0>>, <<0, 0, 64, 0>>,
     <<0, 0, 0, 128>>, <<255, 255, 255, 255>>}

\* 0xFFFFFFFF, 0, 1, 2, 3, 65536, 0xFFFFFFFE
LengthChoices ==
    {<<255, 255, 255, 255>>, <<0, 0, 0, 0>>, <<1, 0, 0, 0>>, <<2, 0, 0, 0>>,
     <<3, 0, 0, 0>>, <<0, 0, 1, 0>>, <<254, 255, 255, 255>>}

ReplayWires ==
    [kind : {"replay"},
     mode : {0, 3, 9},
     beatmap_md5 : {NoString, SomeString(<<97>>)},
     mods : WireModsChoices,
     lifebar : {NoString, SomeString(<<>>), SomeString(LifebarOnePoint)},
     ticks : TicksChoices,
     length : LengthChoices,
     after : 0..MaxAfter]

\* the record up to and including the timestamp
EncodeHead(w) ==
    <<w.mode>> \o <<187, 119, 51, 1>>
    \o EncodeString(w.beatmap_md5) \o EncodeString(NoString)
    \o EncodeString(SomeString(<<>>))
    \o <<9, 0, 1, 0, 0, 0, 0, 0, 0, 0, 0, 0>>
    \o <<16, 39, 0, 0>> \o <<9, 0>> \o <<1>>
    \o w.mods \o EncodeString(w.lifebar) \o w.ticks

AfterBytes(n) == [k \in 1..n |-> 160 + k]

EncodeReplay(w) == EncodeHead(w) \o w.length \o AfterBytes(w.after)

InitReplay ==
    /\ build \in Builds
    /\ rec = NoRecord
    /\ acc = None
    /\ grd = None
    /\ initial_grade = None
    /\ wire \in ReplayWires
    /\ data = EncodeReplay(wire)
    /\ parser = "none"
    /\ out = None

CallScoreReplay ==
    /\ parser = "none"
    /\ parser' = "score_replay"
    /\ out' = score_replay(data, build)
    /\ UNCHANGED <<build, rec, acc, grd, initial_grade, wire, data>>

NextReplay == CallScoreReplay

SpecReplay == InitReplay /\ [][NextReplay]_vars

(***************************************************************************)
(* windows_datetime applied to 8-byte tick counts followed by trailing      *)
(* bytes.                                                                   *)
(***************************************************************************)
\* 0, 1, 9, 10, 11 ticks; the last tick of 0001-01-01 and the first of
\* 0001-01-02; the last tick of year 1 and the first of year 2; 0004-02-29,
\* 0100-03-01, 0400-02-29 at 00:00; 1601-01-01; 2000-02-29 23:59:59;
\* 638261550200000000 (2023-07-28 15:30:20) and 1 and 10 ticks later;
\* 2024-12-31 23:59:59; 3155378975999999999 (the last tick of year 9999) and
\* the next one; 2^63; 2^64 - 1
TickSamples ==
    {<<0, 0, 0, 0, 0, 0, 0, 0>>, <<1, 0, 0, 0, 0, 0, 0, 0>>,
     <<9, 0, 0, 0, 0, 0, 0, 0>>, <<10, 0, 0, 0, 0, 0, 0, 0>>,
     <<11, 0, 0, 0, 0, 0, 0, 0>>,
     <<255, 191, 105, 42, 201, 0, 0, 0>>, <<0, 192, 105, 42, 201, 0, 0, 0>>,
     <<255, 191, 198, 120, 209, 30, 1, 0>>, <<0, 192, 198, 120, 209, 30, 1, 0>>,
     <<0, 128, 179, 48, 209, 138, 3, 0>>, <<0, 128, 37, 117, 58, 44, 111, 0>>,
     <<0, 128, 204, 235, 71, 130, 191, 1>>, <<0, 0, 119, 34, 23, 206, 1, 7>>,
     <<128, 169, 20, 56, 40, 81, 193, 8>>,
     <<0, 14, 118, 141, 127, 143, 219, 8>>, <<1, 14, 118, 141, 127, 143, 219, 8>>,
     <<10, 14, 118, 141, 127, 143, 219, 8>>,
     <<128, 169, 152, 59, 247, 41, 221, 8>>,
     <<255, 63, 55, 244, 117, 40, 202, 43>>, <<0, 64, 55, 244, 117, 40, 202, 43>>,
     <<0, 0, 0, 0, 0, 0, 0, 128>>,
     <<255, 255, 255, 255, 255, 255, 255, 255>>}

TimeWires ==
    [kind : {"ticks"}, ticks : TickSamples, trail : SeqsUpTo(TrailBytes, MaxTrail)]

InitTime ==
    /\ build \in Builds
    /\ rec = NoRecord
    /\ acc = None
    /\ grd = None
    /\ initial_grade = None
    /\ wire \in TimeWires
    /\ data = wire.ticks \o wire.trail
    /\ parser = "none"
    /\ out = None

CallWindowsDatetime ==
    /\ parser = "none"
    /\ parser' = "windows_datetime"
    /\ out' = windows_datetime(data)
    /\ UNCHANGED <<build, rec, acc, grd, initial_grade, wire, data>>

NextTime == CallWindowsDatetime

SpecTime == InitTime /\ [][NextTime]_vars

(***************************************************************************)
(* modifiers applied to 4-byte masks followed by trailing bytes.            *)
(***************************************************************************)
\* NoFail, DoubleTime, the second bit of Nightcore, Key4, Key6, Key8,
\* TargetPractice, Mirror, and the bit of no flag
ModBitSamples == {0, 6, 9, 15, 17, 19, 23, 30, 31}

\* the n little-endian bytes of the number with these 1 bits
BytesOfBits(bits, n) ==
    [k \in 1..n |-> BitsValue({j - 8 * (k - 1) : j \in {x \in bits : x \div 8 = k - 1}})]

ModsWires ==
    [kind : {"mods"}, bits : SUBSET ModBitSamples,
     trail : SeqsUpTo(TrailBytes, MaxTrail)]

InitMods ==
    /\ build \in Builds
    /\ rec = NoRecord
    /\ acc = None
    /\ grd = None
    /\ initial_grade = None
    /\ wire \in ModsWires
    /\ data = BytesOfBits(wire.bits, 4) \o wire.trail
    /\ parser = "none"
    /\ out = None

CallModifiers ==
    /\ parser = "none"
    /\ parser' = "modifiers"
    /\ out' = modifiers(data)
    /\ UNCHANGED <<build, rec, acc, grd, initial_grade, wire, data>>

NextMods == CallModifiers

SpecMods == InitMods /\ [][NextMods]_vars

(***************************************************************************)
(* gameplay_mode and ranked_status applied to every byte value followed by  *)
(* trailing bytes.                                                          *)
(***************************************************************************)
EnumWires ==
    [kind : {"byte"}, byte : 0..255, trail : SeqsUpTo(TrailBytes, MaxTrail)]

InitEnum ==
    /\ build \in Builds
    /\ rec = NoRecord
    /\ acc = None
    /\ grd = None
    /\ initial_grade = None
    /\ wire \in EnumWires
    /\ data = <<wire.byte>> \o wire.trail
    /\ parser = "none"
    /\ out = None

CallGameplayMode ==
    /\ parser = "none"
    /\ parser' = "gameplay_mode"
    /\ out' = gameplay_mode(data)
    /\ UNCHANGED <<build, rec, acc, grd, initial_grade, wire, data>>

CallRankedStatus ==
    /\ parser = "none"
    /\ parser' = "ranked_status"
    /\ out' = ranked_status(data)
    /\ UNCHANGED <<build, rec, acc, grd, initial_grade, wire, data>>

NextEnum == CallGameplayMode \/ CallRankedStatus

SpecEnum == InitEnum /\ [][NextEnum]_vars

(***************************************************************************)
(* beatmap_listing applied to the bytes of written osu.db files: a header, *)
(* the declared number of entries, entries in the layout of the version,   *)
(* user_permissions and the bytes after it.  One marker byte at most of   *)
(* the pairs of the first star rating arrays is not the byte it has to be. *)
(***************************************************************************)
VersionChoices == {20140608, 20140609, 20191105, 20191106}
DifficultyChoices == {5, 254}
LeftoverChoices == {<<>>, <<0>>}
\* the marker bytes of a pair: tag(&[0x08]) and tag(&[0x0d])
PairMarkers == <<8, 13>>

SampleTicks == <<0, 14, 118, 141, 127, 143, 219, 8>>
SampleSize == <<83, 0, 0, 0>>
SampleUnusedF32 == <<1, 2, 3, 4>>
SampleUnusedU32 == <<5, 6, 7, 8>>
SampleScrollSpeed == <<77>>
SamplePermissions == <<4, 0, 0, 0>>
SampleRating == <<0, 0, 0, 0, 0, 0, 20, 64>>
SamplePairMods == <<64, 0, 0, 0>>
AbsentString == <<0>>
StringA == <<11, 1, 97>>

U32Le(n) == BytesOfPattern(n)

\* the four difficulty values of entry k of a listing with difficulty d
DifficultyBytes(d, k) == <<(d + k) % 256, 255 - d, 0, 9 + k>>

\* a float that is no whole number for each of them
RawDifficulty(byte) == <<byte, 204, 12, 65>>

WriteDifficulty(version, byte) ==
    IF version < 20140609 THEN <<byte>> ELSE RawDifficulty(byte)

\* no marker byte is wrong, or marker m of pair p of entry k is another byte
NoBadMarker == [entry |-> 0, pair |-> 0, marker |-> 0, byte |-> 0]
BadMarkers(present, pairs) ==
    {NoBadMarker} \cup
        {bad \in [entry : 1..present, pair : 1..pairs, marker : 1..2,
                  byte : {0, PairMarkers[1], PairMarkers[2], 255}] :
            bad.byte # PairMarkers[bad.marker]}

MarkerByte(w, k, p, m) ==
    IF w.bad.entry = k /\ w.bad.pair = p /\ w.bad.marker = m THEN w.bad.byte
    ELSE PairMarkers[m]

WritePair(w, k, p) ==
    <<MarkerByte(w, k, p, 1)>> \o SamplePairMods
        \o <<MarkerByte(w, k, p, 2)>> \o SampleRating

\* the pairs from pair p on of the first star rating array of entry k
RECURSIVE WritePairs(_, _, _)
WritePairs(w, k, p) ==
    IF p > w.pairs THEN <<>> ELSE WritePair(w, k, p) \o WritePairs(w, k, p + 1)

\* entry k up to the count of its first star rating array
WriteEntryHead(w, k) ==
    (IF w.version < 20191106 THEN SampleSize ELSE <<>>)
        \o StringA \o AbsentString \o StringA \o AbsentString \o StringA
        \o StringA \o StringA \o StringA \o StringA
        \o <<4>> \o <<1, 0>> \o <<2, 0>> \o <<3, 0>> \o SampleTicks
        \o WriteDifficulty(w.version, DifficultyBytes(w.difficulty, k)[1])
        \o WriteDifficulty(w.version, DifficultyBytes(w.difficulty, k)[2])
        \o WriteDifficulty(w.version, DifficultyBytes(w.difficulty, k)[3])
        \o WriteDifficulty(w.version, DifficultyBytes(w.difficulty, k)[4])
        \o SampleRating
        \o U32Le(w.pairs)

\* an entry after its first star rating array
WriteEntryTail(version) ==
    U32Le(0) \o U32Le(0) \o U32Le(0)
        \o U32Le(100) \o U32Le(200) \o U32Le(50)
        \o U32Le(1) \o SampleRating \o SampleRating \o <<1>>
        \o U32Le(7) \o U32Le(8) \o U32Le(9)
        \o <<0, 1, 9, 9>> \o <<10, 0>> \o <<0, 0, 0, 63>> \o <<3>>
        \o AbsentString \o StringA
        \o <<0, 0>> \o AbsentString \o <<1>> \o SampleTicks \o <<0>>
        \o StringA \o SampleTicks \o <<0, 1, 0, 1>>
        \o (IF version < 20140609 THEN SampleUnusedF32 ELSE <<>>)
        \o SampleUnusedU32
        \o SampleScrollSpeed

WriteEntry(w, k) ==
    WriteEntryHead(w, k) \o WritePairs(w, k, 1) \o WriteEntryTail(w.version)

\* the entries from entry k on
RECURSIVE WriteEntries(_, _)
WriteEntries(w, k) ==
    IF k > w.present THEN <<>> ELSE WriteEntry(w, k) \o WriteEntries(w, k + 1)

WriteHeader(w) ==
    U32Le(w.version) \o U32Le(2) \o <<1>> \o SampleTicks \o StringA
        \o U32Le(w.declared)

WriteListing(w) ==
    WriteHeader(w) \o WriteEntries(w, 1) \o SamplePermissions \o w.leftover

ListingWires ==
    UNION {[kind : {"listing"}, version : VersionChoices,
            declared : 0..MaxEntries, present : {shape[1]}, pairs : {shape[2]},
            difficulty : DifficultyChoices, bad : BadMarkers(shape[1], shape[2]),
            leftover : LeftoverChoices] :
                shape \in (0..MaxEntries) \X (0..MaxPairs)}

InitBeatmap ==
    /\ build \in Builds
    /\ rec = NoRecord
    /\ acc = None
    /\ grd = None
    /\ initial_grade = None
    /\ wire \in ListingWires
    /\ data = WriteListing(wire)
    /\ parser = "none"
    /\ out = None

CallBeatmapListing ==
    /\ parser = "none"
    /\ parser' = "beatmap_listing"
    /\ out' = beatmap_listing(data, build)
    /\ UNCHANGED <<build, rec, acc, grd, initial_grade, wire, data>>

NextBeatmap == CallBeatmapListing

SpecBeatmap == InitBeatmap /\ [][NextBeatmap]_vars

(***************************************************************************)
(* lifebar_graph applied to written lifebar strings, and the Display form  *)
(* of the graph it returns.  A string is absent, or holds up to MaxPoints  *)
(* pairs "time|health,"; each text comes with the number it denotes.       *)
(***************************************************************************)
MaxPoints == 2

\* "1676", "007", "4294967295"
TimeTexts ==
    {[text |-> <<49, 54, 55, 54>>, value |-> <<1, 6, 7, 6>>],
     [text |-> <<48, 48, 55>>, value |-> <<7>>],
     [text |-> <<52, 50, 57, 52, 57, 54, 55, 50, 57, 53>>,
      value |-> <<4, 2, 9, 4, 9, 6, 7, 2, 9, 5>>]}

\* "1", "1.0", "0.50", "-2.5E-1", "1e1"
HealthTexts ==
    {[text |-> <<49>>,
      value |-> [kind |-> "decimal", negative |-> FALSE, digits |-> <<1>>, exp10 |-> 0]],
     [text |-> <<49, 46, 48>>,
      value |-> [kind |-> "decimal", negative |-> FALSE, digits |-> <<1>>, exp10 |-> 0]],
     [text |-> <<48, 46, 53, 48>>,
      value |-> [kind |-> "decimal", negative |-> FALSE, digits |-> <<5>>, exp10 |-> -1]],
     [text |-> <<45, 50, 46, 53, 69, 45, 49>>,
      value |-> [kind |-> "decimal", negative |-> TRUE, digits |-> <<2, 5>>, exp10 |-> -2]],
     [text |-> <<49, 101, 49>>,
      value |-> [kind |-> "decimal", negative |-> FALSE, digits |-> <<1>>, exp10 |-> 1]]}

LifebarPairs == [time : TimeTexts, health : HealthTexts]

LifebarWires ==
    [kind : {"lifebar"}, present : {FALSE}, pairs : {<<>>}, trail : {<<>>, <<11>>}]
    \cup [kind : {"lifebar"}, present : {TRUE},
          pairs : SeqsUpTo(LifebarPairs, MaxPoints), trail : {<<>>, <<11>>}]

WritePoint(p) == p.time.text \o <<124>> \o p.health.text \o <<44>>

RECURSIVE WritePoints(_)
WritePoints(pairs) ==
    IF pairs = <<>> THEN <<>> ELSE WritePoint(Head(pairs)) \o WritePoints(Tail(pairs))

WriteLifebar(w) ==
    (IF w.present THEN EncodeString(SomeString(WritePoints(w.pairs)))
     ELSE EncodeString(NoString)) \o w.trail

InitLifebar ==
    /\ build \in Builds
    /\ rec = NoRecord
    /\ acc = None
    /\ grd = None
    /\ initial_grade = None
    /\ wire \in LifebarWires
    /\ data = WriteLifebar(wire)
    /\ parser = "none"
    /\ out = None

CallLifebarGraph ==
    /\ parser = "none"
    /\ parser' = "lifebar_graph"
    /\ out' = lifebar_graph(data, build)
    /\ UNCHANGED <<build, rec, acc, grd, initial_grade, wire, data>>

\* graph.to_string() on the graph that lifebar_graph returned
CallToString ==
    /\ parser = "lifebar_graph"
    /\ out.kind = "ok"
    /\ out.value.some
    /\ parser' = "to_string"
    /\ out' = [kind |-> "text", str |-> display_lifebar_graph(out.value.points)]
    /\ UNCHANGED <<build, rec, acc, grd, initial_grade, wire, data>>

NextLifebar == CallLifebarGraph \/ CallToString

SpecLifebar == InitLifebar /\ [][NextLifebar]_vars

(***************************************************************************)
(* lifebar_graph applied to lifebar strings that are not made of           *)
(* well-formed pairs only: up to MaxPoints pairs "time|health," followed   *)
(* by a text that is not the start of another pair.                        *)
(***************************************************************************)
\* "x": text that is no pair
GarbageTail == <<120>>
\* "x1|1,": a pair behind text that is no pair
GarbageThenPair == <<120, 49, 124, 49, 44>>
\* "5|1": a pair without its comma
NoCommaTail == <<53, 124, 49>>
\* "4294967296|1,": a time of 2^32
WideTimeTail == <<52, 50, 57, 52, 57, 54, 55, 50, 57, 54, 124, 49, 44>>
\* "5|,": a pair without its health
NoHealthTail == <<53, 124, 44>>
\* "5|1e,": a health with an exponent mark and no exponent digits
NoExponentTail == <<53, 124, 49, 101, 44>>
\* "5|1E-": the same, signed, at the end of the text
NoExponentAtEnd == <<53, 124, 49, 69, 45>>

ExponentTails == {NoExponentTail, NoExponentAtEnd}

MalformedTails ==
    {GarbageTail, GarbageThenPair, NoCommaTail, WideTimeTail, NoHealthTail}
    \cup ExponentTails

LifebarTextWires ==
    [kind : {"lifebar_text"}, present : {TRUE},
     pairs : SeqsUpTo(LifebarPairs, MaxPoints), tail : MalformedTails,
     trail : {<<>>, <<11>>}]

WriteLifebarText(w) ==
    EncodeString(SomeString(WritePoints(w.pairs) \o w.tail)) \o w.trail

InitLifebarText ==
    /\ build \in Builds
    /\ rec = NoRecord
    /\ acc = None
    /\ grd = None
    /\ initial_grade = None
    /\ wire \in LifebarTextWires
    /\ data = WriteLifebarText(wire)
    /\ parser = "none"
    /\ out = None

SpecLifebarText == InitLifebarText /\ [][NextLifebar]_vars

(***************************************************************************)
(* collection_listing, score_listing and beatmap_listing applied to        *)
(* written files.  A collection.db or scores.db file declares a number of  *)
(* entries and holds a number of entries, each a string (entry k: "a", "b" *)
(* ...) and an array of hashes or score records (element j of entry k      *)
(* carries the string "A1", "A2", ..., "B1", ...).  The last entry that is *)
(* written may declare one element more than it holds, the file may declare *)
(* 0x7fffffff entries, and one string head                                 *)
(* or gameplay mode byte of the file may be wrong, or the timestamp of one *)
(* score record may be 2^64 - 1 ticks.                                     *)
(***************************************************************************)
MaxArray == 2
MaxInner == 2

\* a count far above the bytes of any file: 0x7fffffff
HugeCount == 2 ^ 30 + (2 ^ 30 - 1)

NoBadSlot == [entry |-> 0, slot |-> 0, what |-> "none"]

\* slot 0 is the string of the entry, slot j > 0 its element j; the first
\* byte is wrong or, in a score record, the timestamp is out of range
BadSlots(kind, present, inner) ==
    {NoBadSlot}
        \cup [entry : 1..present, slot : 0..inner, what : {"head"}]
        \cup (IF kind = "scores"
              THEN [entry : 1..present, slot : 1..inner, what : {"time"}]
              ELSE {})

ArrayWires ==
    UNION {[kind : {shape[3]}, declared : (0..MaxArray) \cup {HugeCount},
            present : {shape[1]}, inner : {shape[2]}, short : {0, 1},
            bad : BadSlots(shape[3], shape[1], shape[2])] :
                shape \in (0..MaxArray) \X (0..MaxInner) \X {"collections", "scores"}}

EntryName(k) == SomeString(<<96 + k>>)
ElementName(k, j) == SomeString(<<64 + k, 48 + j>>)

\* a string whose first byte is neither 0x00 nor 0x0b when it is the bad one
WriteName(os, bad) == IF bad THEN <<5>> \o Tail(EncodeString(os)) ELSE EncodeString(os)

\* a Standard score record on the beatmap md5, without replay data; its
\* gameplay mode byte is 9 when that is the bad byte
WriteScore(md5, what) ==
    EncodeReplay([kind |-> "replay", mode |-> IF what = "head" THEN 9 ELSE 0,
                  beatmap_md5 |-> md5, mods |-> <<0, 0, 0, 0>>,
                  lifebar |-> NoString,
                  ticks |-> IF what = "time"
                            THEN <<255, 255, 255, 255, 255, 255, 255, 255>>
                            ELSE SampleTicks,
                  length |-> <<255, 255, 255, 255>>, after |-> 8])

BadAt(w, k, j) == IF w.bad.entry = k /\ w.bad.slot = j THEN w.bad.what ELSE "none"

WriteElement(w, k, j) ==
    IF w.kind = "collections"
    THEN WriteName(ElementName(k, j), BadAt(w, k, j) = "head")
    ELSE WriteScore(ElementName(k, j), BadAt(w, k, j))

RECURSIVE WriteElements(_, _, _)
WriteElements(w, k, j) ==
    IF j > w.inner THEN <<>> ELSE WriteElement(w, k, j) \o WriteElements(w, k, j + 1)

WriteArrayEntry(w, k) ==
    WriteName(EntryName(k), BadAt(w, k, 0) = "head")
        \o U32Le(w.inner + (IF k = w.present THEN w.short ELSE 0))
        \o WriteElements(w, k, 1)

RECURSIVE WriteArrayEntries(_, _)
WriteArrayEntries(w, k) ==
    IF k > w.present THEN <<>> ELSE WriteArrayEntry(w, k) \o WriteArrayEntries(w, k + 1)

\* version 20150203
WriteArrayFile(w) == <<251, 119, 51, 1>> \o U32Le(w.declared) \o WriteArrayEntries(w, 1)

WriteFile(w) == IF w.kind = "listing" THEN WriteListing(w) ELSE WriteArrayFile(w)

InitArrays ==
    /\ build \in Builds
    /\ rec = NoRecord
    /\ acc = None
    /\ grd = None
    /\ initial_grade = None
    /\ wire \in ArrayWires \cup ListingWires
    /\ data = WriteFile(wire)
    /\ parser = "none"
    /\ out = None

CallCollectionListing ==
    /\ parser = "none"
    /\ wire.kind = "collections"
    /\ parser' = "collection_listing"
    /\ out' = collection_listing(data, build)
    /\ UNCHANGED <<build, rec, acc, grd, initial_grade, wire, data>>

CallScoreListing ==
    /\ parser = "none"
    /\ wire.kind = "scores"
    /\ parser' = "score_listing"
    /\ out' = score_listing(data, build)
    /\ UNCHANGED <<build, rec, acc, grd, initial_grade, wire, data>>

CallListing ==
    /\ wire.kind = "listing"
    /\ CallBeatmapListing

NextArrays == CallCollectionListing \/ CallScoreListing \/ CallListing

SpecArrays == InitArrays /\ [][NextArrays]_vars

(***************************************************************************)
(* uleb128 applied to encodings of any length: 0..MaxContinuation bytes    *)
(* with the high bit set, a byte with the high bit clear, and what follows.*)
(***************************************************************************)
MaxContinuation == 11

\* 0x80, 0x81, 0xff
ContinuationBytes == {128, 129, 255}
\* 0x00, 0x01, 0x7f
FinalBytes == {0, 1, 127}

LongWires ==
    [kind : {"long"}, continuation : 0..MaxContinuation, byte : ContinuationBytes,
     final : FinalBytes, trail : {<<>>, <<128>>}]

WriteLong(w) == [k \in 1..w.continuation |-> w.byte] \o <<w.final>> \o w.trail

InitUleb ==
    /\ build \in Builds
    /\ rec = NoRecord
    /\ acc = None
    /\ grd = None
    /\ initial_grade = None
    /\ wire \in LongWires
    /\ data = WriteLong(wire)
    /\ parser = "none"
    /\ out = None

NextUleb == CallUleb128

SpecUleb == InitUleb /\ [][NextUleb]_vars

(***************************************************************************)
(* Properties of the scoring analytics (checked under SpecScore).          *)
(***************************************************************************)
SilverBits == {3, 10, 20}
HasSilverBit == rec.mods \cap SilverBits # {}
Graded == grd.kind = "grade" /\ initial_grade.kind = "grade"

\* the fraction n/d in lowest terms
Lowest(n, d) == LET g == GCD(n, d) IN <<n \div g, d \div g>>

\* the accuracy a is the number 100 * n / d
AccIs(a, n, d) == a.kind = "num" /\ Lowest(a.num, a.den) = Lowest(n, d)

\* C1: a record whose base grade is SS is graded SilverSS when Hidden,
\* Flashlight or FadeIn is set and SS when none is; a Standard record with
\* 300s only and Hidden set is graded SilverSS and has accuracy 100.
C1_SilverSS ==
    /\ (Graded /\ initial_grade.grade = "SS") =>
            grd.grade = (IF HasSilverBit THEN "SilverSS" ELSE "SS")
    /\ (/\ rec.gameplay_mode = "Standard"
        /\ rec.hits_300 > 0 /\ rec.hits_100 = 0 /\ rec.hits_50 = 0 /\ rec.misses = 0
        /\ 3 \in rec.mods)
       => /\ grd # None => (grd.kind = "grade" /\ grd.grade = "SilverSS")
          /\ acc # None => AccIs(acc, 1, 1)

\* C2: below SS, base grade S becomes SilverS exactly when Hidden, Flashlight
\* or FadeIn is set, and base grades A, B, C, D are returned unchanged.
C2_SilverRemapBelowSS ==
    (Graded /\ initial_grade.grade # "SS") =>
        /\ initial_grade.grade = "S" =>
                grd.grade = (IF HasSilverBit THEN "SilverS" ELSE "S")
        /\ initial_grade.grade \in {"A", "B", "C", "D"} =>
                grd.grade = initial_grade.grade
        /\ initial_grade.grade \in {"S", "A", "B", "C", "D"}

C2_Witness ==
    /\ Graded
    /\ initial_grade.grade = "S"
    /\ grd.grade = "SilverS"
    /\ rec.mods = FadeIn

\* C3: accuracy() is a percentage between 0 and 100 for every record.
C3_AccuracyInRange ==
    acc # None => (acc.kind = "num" /\ 0 <= acc.num /\ acc.num <= acc.den)

\* C4: for Standard, Taiko and Catch records with a non-zero denominator,
\* accuracy() is 100 times the formula over the true (unwrapped) sums, and the
\* Taiko result does not read hits_50.
C4_AccuracyExactSums ==
    LET r == rec
        std == r.hits_300 + r.hits_100 + r.hits_50 + r.misses
        tai == r.hits_300 + r.hits_100 + r.misses
        cat == r.hits_300 + r.hits_100 + r.hits_50 + r.misses + r.hits_katu
    IN  acc # None =>
          /\ (r.gameplay_mode = "Standard" /\ std > 0) =>
                AccIs(acc, 300 * r.hits_300 + 100 * r.hits_100 + 50 * r.hits_50,
                      300 * std)
          /\ (r.gameplay_mode = "Taiko" /\ tai > 0) =>
                AccIs(acc, 2 * r.hits_300 + r.hits_100, 2 * tai)
          /\ (r.gameplay_mode = "Catch" /\ cat > 0) =>
                AccIs(acc, r.hits_300 + r.hits_100 + r.hits_50, cat)

\* C5: for Mania records accuracy() is 100 * (W*geki + 300*g300 + 200*katu +
\* 100*g100 + 50*g50) / (W*total), total = geki+g300+g100+g50+miss, with
\* W = 300 when ScoreV2 is set and W = 305 when it is not.
C5_ManiaAccuracy ==
    LET r == rec
        total == r.hits_geki + r.hits_300 + r.hits_100 + r.hits_50 + r.misses
        W == IF 29 \in r.mods THEN 300 ELSE 305
    IN  (acc # None /\ r.gameplay_mode = "Mania" /\ total > 0) =>
            AccIs(acc, W * r.hits_geki + 300 * r.hits_300 + 200 * r.hits_katu
                          + 100 * r.hits_100 + 50 * r.hits_50,
                  W * total)

\* C6: a Mania record with ScoreV2 set is graded SS or SilverSS only if its
\* 100s, 50s, katus and misses are 0, geki > 0 and hits_300 = 0.
C6_ManiaScoreV2SS ==
    (/\ grd.kind = "grade"
     /\ rec.gameplay_mode = "Mania"
     /\ 29 \in rec.mods
     /\ grd.grade \in {"SS", "SilverSS"})
    => /\ rec.hits_100 = 0 /\ rec.hits_50 = 0
       /\ rec.hits_katu = 0 /\ rec.misses = 0
       /\ rec.hits_geki > 0
       /\ rec.hits_300 = 0

\* n/d >= p/q and n/d <= p/q for a ratio over d objects; no ratio of zero
\* objects meets a threshold
AtLeast(n, d, p, q) == d > 0 /\ q * n >= p * d
AtMost(n, d, p, q) == d > 0 /\ q * n <= p * d

\* the rows S to D of the Standard and Taiko tables, first match
TableRow(n300, total, s_row, miss) ==
    CASE s_row -> "S"
      [] (AtLeast(n300, total, 8, 10) /\ miss = 0) \/ AtLeast(n300, total, 9, 10) -> "A"
      [] (AtLeast(n300, total, 7, 10) /\ miss = 0) \/ AtLeast(n300, total, 8, 10) -> "B"
      [] AtLeast(n300, total, 6, 10) -> "C"
      [] OTHER -> "D"

StandardTotal == rec.hits_300 + rec.hits_100 + rec.hits_50 + rec.misses

\* the grade of the record with other gekis and katus
GradeWith(geki, katu) ==
    grade([rec EXCEPT !.hits_geki = geki, !.hits_katu = katu], build)

TaikoTotal == rec.hits_300 + rec.hits_100 + rec.misses

\* the grade of the record with other 50s, gekis and katus
TaikoGradeWith(h50, geki, katu) ==
    grade([rec EXCEPT !.hits_50 = h50, !.hits_geki = geki, !.hits_katu = katu], build)

\* the grade of the record with other modifiers that have the same silver bits
SilverAlike(mods) == (mods \cap SilverBits = {}) <=> (rec.mods \cap SilverBits = {})

Above(a, t) ==
    \/ a.kind = "inf"
    \/ a.kind = "num" /\ Lowest(t, 100)[2] * a.num > Lowest(t, 100)[1] * a.den
AtLeastPercent(a, t) ==
    \/ a.kind = "inf"
    \/ a.kind = "num" /\ Lowest(t, 100)[2] * a.num >= Lowest(t, 100)[1] * a.den

CatchTier(a) ==
    CASE Above(a, 98) -> "S"
      [] Above(a, 94) -> "A"
      [] Above(a, 90) -> "B"
      [] Above(a, 85) -> "C"
      [] OTHER -> "D"

ManiaTier(a) ==
    CASE AtLeastPercent(a, 95) -> "S"
      [] AtLeastPercent(a, 90) -> "A"
      [] AtLeastPercent(a, 80) -> "B"
      [] AtLeastPercent(a, 70) -> "C"
      [] OTHER -> "D"

\* accuracy() and grade() were both called on the record
BothCalled == acc # None /\ grd # None

\* the SS condition of the mode's row of the grade table
MeetsSS ==
    IF rec.gameplay_mode = "Catch" THEN rec.misses = 0 /\ rec.hits_katu = 0
    ELSE /\ rec.hits_100 = 0 /\ rec.hits_50 = 0 /\ rec.hits_katu = 0 /\ rec.misses = 0
         /\ IF 29 \in rec.mods THEN rec.hits_geki > 0 /\ rec.hits_300 = 0
            ELSE rec.hits_geki > 0 \/ rec.hits_300 > 0

\* C24: a Catch record is SS exactly when misses = 0 and katu = 0; the base
\* grade of a Catch or Mania record that does not meet its mode's SS
\* condition is decided by the value of accuracy(): in Catch S, A, B, C above
\* 98, 94, 90, 85, in Mania S, A, B, C at 95, 90, 80, 70 or more, else D.
C24_AccuracyTiers ==
    (BothCalled /\ Graded /\ rec.gameplay_mode \in {"Catch", "Mania"}) =>
        /\ rec.gameplay_mode = "Catch" =>
                (initial_grade.grade = "SS" <=> (rec.misses = 0 /\ rec.hits_katu = 0))
        /\ ~MeetsSS =>
                /\ acc.kind # "panic"
                /\ initial_grade.grade =
                      (IF rec.gameplay_mode = "Catch" THEN CatchTier(acc) ELSE ManiaTier(acc))

\* what holds of C24: the records that grade() does not return SS for get
\* the tier of their accuracy, and grade() aborts where accuracy() does
C24_TiersBelowSS ==
    (BothCalled /\ rec.gameplay_mode \in {"Catch", "Mania"}) =>
        /\ (rec.gameplay_mode = "Catch" /\ Graded) =>
                (initial_grade.grade = "SS" <=> (rec.misses = 0 /\ rec.hits_katu = 0))
        /\ (Graded /\ initial_grade.grade = "SS") => initial_grade.early
        /\ (Graded /\ initial_grade.grade # "SS") =>
                /\ acc.kind # "panic"
                /\ initial_grade.grade =
                      (IF rec.gameplay_mode = "Catch" THEN CatchTier(acc) ELSE ManiaTier(acc))
        /\ ~Graded => (acc.kind = "panic" /\ grd.kind = "panic")

\* a ScoreV2 Mania record of 300s only is returned as SS although it does not
\* meet the SS condition; its accuracy is 100
C24_ManiaSSBy300s ==
    /\ BothCalled /\ Graded /\ rec.gameplay_mode = "Mania"
    /\ 29 \in rec.mods /\ rec.hits_300 = 1 /\ rec.hits_geki = 0
    /\ ~MeetsSS
    /\ acc.kind = "num" /\ acc.num = acc.den
    /\ initial_grade.grade = "SS"

\* 49 of 50 caught: the accuracy is exactly 98 and the grade is A
C24_Witness ==
    /\ BothCalled /\ Graded /\ rec.gameplay_mode = "Catch"
    /\ rec.hits_300 = 49 /\ rec.hits_100 = 0 /\ rec.hits_50 = 0
    /\ rec.misses = 1 /\ rec.hits_katu = 0
    /\ acc.kind = "num" /\ 50 * acc.num = 49 * acc.den
    /\ initial_grade.grade = "A"

\* 19 300s and a miss under ScoreV2: the accuracy is exactly 95, the grade S
C24_ManiaAt95 ==
    /\ BothCalled /\ Graded /\ rec.gameplay_mode = "Mania"
    /\ acc.kind = "num" /\ 20 * acc.num = 19 * acc.den
    /\ initial_grade.grade = "S"

IsSS == grd.kind = "grade" /\ grd.grade \in {"SS", "SilverSS"}

\* C26: in every gameplay mode grade() returns SS or SilverSS for a record
\* exactly when accuracy() of the record is 100.
C26_SSIffAccuracy100 ==
    BothCalled => (IsSS <=> AccIs(acc, 1, 1))

\* what holds of C26: for Standard and Taiko records the grade is SS exactly
\* when the accuracy is 100
C26_StandardAndTaiko ==
    (BothCalled /\ rec.gameplay_mode \in {"Standard", "Taiko"}) =>
        (IsSS <=> AccIs(acc, 1, 1))

\* a Mania record of one 300 without ScoreV2 is SS and its accuracy is
\* 100 * 300 / 305
C26_ManiaSSBelow100 ==
    /\ BothCalled /\ rec.gameplay_mode = "Mania" /\ 29 \notin rec.mods
    /\ rec.hits_300 = 1 /\ rec.hits_geki = 0
    /\ IsSS
    /\ AccIs(acc, 300, 305)

\* a Catch record without any judgement is SS and its accuracy is NaN
C26_EmptyCatchSS ==
    /\ BothCalled /\ rec.gameplay_mode = "Catch"
    /\ IsSS
    /\ acc.kind = "nan"

ManiaTotal ==
    rec.hits_geki + rec.hits_300 + rec.hits_100 + rec.hits_50 + rec.misses

ManiaBelowGeki ==
    300 * rec.hits_300 + 200 * rec.hits_katu + 100 * rec.hits_100 + 50 * rec.hits_50

\* the accuracy of the Mania record when a geki and an object weigh w
ManiaAccuracyIs(w) ==
    AccIs(acc, w * rec.hits_geki + ManiaBelowGeki, w * ManiaTotal)

\* C27: in the accuracy of a Mania record a geki weighs 300 when ScoreV2 is
\* not set and 305 when it is set, and the divisor has the same weight per
\* object.
C27_GekiWeight ==
    (acc # None /\ rec.gameplay_mode = "Mania" /\ ManiaTotal \in 1..(U16Modulus - 1)) =>
        ManiaAccuracyIs(IF 29 \in rec.mods THEN 305 ELSE 300)

\* what holds of C27: the weight of the divisor is the weight of a geki, 305
\* when ScoreV2 is not set and 300 when it is
C27_WeightsAsCoded ==
    (acc # None /\ rec.gameplay_mode = "Mania" /\ ManiaTotal \in 1..(U16Modulus - 1)) =>
        ManiaAccuracyIs(IF 29 \in rec.mods THEN 300 ELSE 305)

\* a geki and a 100 without ScoreV2: the accuracy is 100 * 405 / 610
C27_Geki305WithoutScoreV2 ==
    /\ acc # None /\ rec.gameplay_mode = "Mania" /\ 29 \notin rec.mods
    /\ rec.hits_geki = 1 /\ rec.hits_100 = 1 /\ ManiaTotal = 2 /\ rec.hits_katu = 0
    /\ AccIs(acc, 405, 610)

(***************************************************************************)
(* Properties of the primitive parsers (checked under SpecPrim).           *)
(***************************************************************************)
HasPrefix(s, p) == Len(s) >= Len(p) /\ SubSeq(s, 1, Len(p)) = p
Drop(s, k) == SubSeq(s, k + 1, Len(s))
First(s, k) == SubSeq(s, 1, k)

\* the lengths a buffer of the model can declare in canonical form
LengthSamples == {0, 1, 2, 11, 65, 128, 255, 256, 16384}

OsuStringCalled == wire.kind = "raw" /\ parser = "osu_string"

\* the cases of C9 that do not involve a string body
C9_Tags ==
    /\ data = <<>> => out.kind = "err"
    /\ (data # <<>> /\ data[1] = 0) => out = Ok(Tail(data), NoString)
    /\ (data # <<>> /\ data[1] \notin {0, 11}) =>
            (out.kind = "err" /\ out.input = data)

\* C9 (as amended): tag 0x00 gives the absent value and consumes 1 byte; tag
\* 0x0b and a ULEB128 length n give a present string of exactly the next n
\* bytes, the rest left unconsumed, when those bytes are valid UTF-8; every
\* other tag, fewer than n bytes remaining, and invalid UTF-8 fail.
C9_OsuStringUtf8 ==
    OsuStringCalled =>
        /\ C9_Tags
        /\ \A n \in LengthSamples :
              LET p == <<11>> \o EncodeUleb(NatBits(n))
                  body == Drop(data, Len(p))
              IN  HasPrefix(data, p) =>
                    IF n > Len(body) THEN out.kind = "err"
                    ELSE IF Utf8Valid(First(body, n))
                         THEN /\ out = Ok(Drop(body, n), SomeString(First(body, n)))
                              /\ out.value # NoString
                    ELSE out.kind = "err"

C9_Witness ==
    /\ OsuStringCalled
    /\ data = <<11, 1, 65, 255>>
    /\ out = Ok(<<255>>, SomeString(<<65>>))

\* C9 (as stated): as above, but tag 0x0b and length n give a present string
\* of the next n bytes whenever n bytes remain.
C9_OsuStringAnyBytes ==
    OsuStringCalled =>
        /\ C9_Tags
        /\ \A n \in LengthSamples :
              LET p == <<11>> \o EncodeUleb(NatBits(n))
                  body == Drop(data, Len(p))
              IN  HasPrefix(data, p) =>
                    IF n > Len(body) THEN out.kind = "err"
                    ELSE /\ out = Ok(Drop(body, n), SomeString(First(body, n)))
                         /\ out.value # NoString

\* C10: uleb128 on the canonical encoding of a 64-bit value n followed by
\* trailing bytes returns n and leaves exactly the trailing bytes.
C10_UlebRoundTrip ==
    (wire.kind = "uleb" /\ parser = "uleb128") => out = Ok(wire.trail, wire.n)

C10_Witness ==
    /\ wire.kind = "uleb"
    /\ parser = "uleb128"
    /\ wire.n = 0..63
    /\ wire.trail = <<128, 255>>
    /\ out = Ok(<<128, 255>>, 0..63)

\* C11: uleb128 fails with an end-of-input error on the empty buffer and on
\* every buffer made only of bytes with the high bit set.
C11_UlebEof ==
    (parser = "uleb128" /\ \A k \in 1..Len(data) : data[k] >= 128) =>
        out = Err(<<>>, "Eof")

C11_Witness ==
    /\ parser = "uleb128"
    /\ data = <<128, 255, 195>>
    /\ out = Err(<<>>, "Eof")

(***************************************************************************)
(* Properties of windows_datetime (checked under SpecTime).                 *)
(***************************************************************************)
TicksCalled == wire.kind = "ticks" /\ parser = "windows_datetime"

\* the number of days from 0001-01-01 to the date
DaysFromCivil(year, month, day) ==
    365 * (year - 1) + ((year - 1) \div 4) - ((year - 1) \div 100)
    + ((year - 1) \div 400) + DaysBeforeMonth(year)[month] + (day - 1)

\* the whole days, the second of the day and the tick of the second of a
\* count of ticks of 100 ns
TicksSplit(bits) ==
    LET s == BitsDivMod(bits, 10000000)
        d == BitsDivMod(s.quot, 86400)
    IN  [days |-> BitsValue(d.quot), second_of_day |-> d.rem, tick |-> s.rem]

\* the date and time v is the instant bits * 100 ns after 0001-01-01 00:00
IsInstant(v, bits) ==
    /\ v.month \in 1..12 /\ v.day >= 1
    /\ v.hour \in 0..23 /\ v.minute \in 0..59 /\ v.second \in 0..59
    /\ DaysFromCivil(v.year, v.month, v.day) = TicksSplit(bits).days
    /\ (v.month < 12 =>
            DaysFromCivil(v.year, v.month, v.day)
                < DaysFromCivil(v.year, v.month + 1, 1))
    /\ (v.month = 12 => v.day <= 31)
    /\ 3600 * v.hour + 60 * v.minute + v.second = TicksSplit(bits).second_of_day
    /\ v.nanosecond = 100 * TicksSplit(bits).tick

C12_Instant ==
    /\ out.kind = "ok"
    /\ out.rest = wire.trail
    /\ IsInstant(out.value, LittleEndianBits(wire.ticks))
    /\ \A t \in TickSamples \ {wire.ticks} :
            epoch_plus_ticks(LittleEndianBits(t)) # out.value
    /\ (wire.ticks = <<0, 14, 118, 141, 127, 143, 219, 8>> =>
            out.value = [year |-> 2023, month |-> 7, day |-> 28, hour |-> 15,
                         minute |-> 30, second |-> 20, nanosecond |-> 0])

\* C12: windows_datetime consumes exactly 8 bytes and returns the instant
\* ticks * 100 ns after 0001-01-01 00:00 UTC, different ticks giving different
\* instants; 638261550200000000 ticks give 2023-07-28 15:30:20.
C12_WindowsDatetime == TicksCalled => C12_Instant

\* the same for the tick counts up to the last instant of the year 9999
C12_UpToYear9999 ==
    (TicksCalled /\ ~BitsGT(LittleEndianBits(wire.ticks), MaxTicks)) => C12_Instant

C12_Decoded ==
    /\ TicksCalled
    /\ wire.ticks = <<1, 14, 118, 141, 127, 143, 219, 8>>
    /\ wire.trail = <<128, 255>>
    /\ out.kind = "ok"
    /\ out.value.nanosecond = 100

\* C29: on every 8 bytes windows_datetime returns a timestamp or a decode
\* error, also for tick counts past the last calendar date and at the top of
\* the 64-bit range: it never aborts.
C29_DatetimeTotal == TicksCalled => out.kind \in {"ok", "err"}

\* what holds of C29: the call returns a timestamp for the tick counts up
\* to the last instant of the year 9999 and aborts for all above
C29_AbortsPastYear9999 ==
    TicksCalled =>
        /\ out.kind \in {"ok", "panic"}
        /\ out.kind = "panic" <=> BitsGT(LittleEndianBits(wire.ticks), MaxTicks)

\* 2^64 - 1 ticks: the call aborts
C29_AbortsAtTop ==
    /\ TicksCalled
    /\ wire.ticks = <<255, 255, 255, 255, 255, 255, 255, 255>>
    /\ out.kind = "panic"

\* the first tick of the year 10000: the call aborts
C29_AbortsAtYear10000 ==
    /\ TicksCalled
    /\ wire.ticks = <<0, 64, 55, 244, 117, 40, 202, 43>>
    /\ out.kind = "panic"

(***************************************************************************)
(* Properties of modifiers (checked under SpecMods).                        *)
(***************************************************************************)
ModsCalled == wire.kind = "mods" /\ parser = "modifiers"

\* C13: modifiers never fails on a 4-byte mask and returns the mask with bit
\* 31 cleared, every other bit kept (bit 9 without bit 6 and every subset of
\* the key-count bits included).
C13_ModifiersKeepKnownBits ==
    ModsCalled => out = Ok(wire.trail, wire.bits \ {31})

\* what is returned: bit 31 is cleared, and bit 9 too when bit 6 is not set
C13_ModifiersTruncated ==
    ModsCalled =>
        out = Ok(wire.trail,
                 wire.bits \ ({31} \cup (IF 6 \in wire.bits THEN {} ELSE {9})))

C13_Bit9Dropped ==
    /\ ModsCalled
    /\ wire.bits = {9, 15, 19}
    /\ out.kind = "ok"
    /\ out.value = {15, 19}

(***************************************************************************)
(* Properties of gameplay_mode and ranked_status (checked under SpecEnum).  *)
(***************************************************************************)
GameplayModeNames == <<"Standard", "Taiko", "Catch", "Mania">>

RankedStatusNames ==
    <<"Unknown", "Unsubmitted", "Pending", "none", "Ranked", "Approved",
      "Qualified", "Loved">>

\* C14: gameplay_mode accepts exactly the bytes 0, 1, 2, 3 and ranked_status
\* exactly 0, 1, 2, 4, 5, 6, 7; on every other byte the parser fails and the
\* error is at the offending byte, nothing consumed.
C14_ClosedEnums ==
    wire.kind = "byte" =>
        /\ parser = "gameplay_mode" =>
              out = IF wire.byte \in {0, 1, 2, 3}
                    THEN Ok(wire.trail, GameplayModeNames[wire.byte + 1])
                    ELSE Err(data, "Switch")
        /\ parser = "ranked_status" =>
              out = IF wire.byte \in {0, 1, 2, 4, 5, 6, 7}
                    THEN Ok(wire.trail, RankedStatusNames[wire.byte + 1])
                    ELSE Err(data, "Switch")

C14_Witness ==
    /\ wire.kind = "byte"
    /\ parser = "ranked_status"
    /\ wire.byte = 3
    /\ wire.trail = <<0, 255>>
    /\ out = Err(<<3, 0, 255>>, "Switch")

(***************************************************************************)
(* Properties of beatmap_listing (checked under SpecBeatmap).              *)
(***************************************************************************)
ListingCalled == parser = "beatmap_listing" /\ wire.kind = "listing"

\* C15: beatmap_listing succeeds only on a buffer that ends with the
\* user_permissions of a listing holding as many entries as its count prefix
\* declares: bytes left over are an error, and so are entries that are missing
C15_ListingCountAgrees ==
    (ListingCalled /\ out.kind = "ok") =>
        (wire.leftover = <<>> /\ wire.declared = wire.present)

\* the half of C15 that holds: a count above the entries that are there fails
C15_FewerEntriesFail ==
    (ListingCalled /\ wire.declared > wire.present) => out.kind = "err"

\* bytes after user_permissions are handed back as the rest of a success
C15_LeftoverReturned ==
    /\ ListingCalled
    /\ wire.declared = 0 /\ wire.present = 0 /\ wire.leftover = <<0>>
    /\ out.kind = "ok" /\ out.rest = <<0>>

\* the listing that was written holds the entries its count declares, and
\* no marker byte of these entries is wrong
WellFormedListing ==
    /\ wire.declared <= wire.present
    /\ (wire.bad.entry = 0 \/ wire.bad.entry > wire.declared)

DifficultyFields(entry) ==
    <<entry.approach_rate, entry.circle_size, entry.hp_drain,
      entry.overall_difficulty>>

\* the four bytes are the f32 with the value of the whole number n (n < 256):
\* sign 0, and (2^23 + mantissa) * 2^(exponent - 150) = n
IsFloatOf(bytes, n) ==
    IF n = 0 THEN bytes = <<0, 0, 0, 0>>
    ELSE /\ bytes[4] < 128
         /\ (bytes[3] \div 128) + 2 * bytes[4] \in 127..134
         /\ n * 2 ^ (150 - ((bytes[3] \div 128) + 2 * bytes[4]))
                = 8388608 + bytes[1] + 256 * bytes[2] + 65536 * (bytes[3] % 128)

\* C16: in every entry of a listing each of the four difficulty values is
\* the float of the one byte that was written when version < 20140609, and
\* the four bytes that were written, as they are, when version >= 20140609
C16_DifficultyByVersion ==
    (ListingCalled /\ WellFormedListing) =>
        /\ out.kind = "ok"
        /\ Len(out.value.beatmaps) = wire.declared
        /\ \A k \in 1..wire.declared : \A j \in 1..4 :
              IF wire.version < 20140609
              THEN IsFloatOf(DifficultyFields(out.value.beatmaps[k])[j],
                             DifficultyBytes(wire.difficulty, k)[j])
              ELSE DifficultyFields(out.value.beatmaps[k])[j]
                       = RawDifficulty(DifficultyBytes(wire.difficulty, k)[j])

\* two entries of an old listing: the bytes 6 and 7 are 6.0 and 7.0
C16_Witness ==
    /\ ListingCalled /\ WellFormedListing
    /\ wire.version = 20140608 /\ wire.declared = 2 /\ wire.difficulty = 5
    /\ out.kind = "ok"
    /\ out.value.beatmaps[1].approach_rate = <<0, 0, 192, 64>>
    /\ out.value.beatmaps[2].approach_rate = <<0, 0, 224, 64>>

\* C17: an entry holds its size exactly when version < 20191106; the unused
\* float is taken exactly when version < 20140609 and the unused integer
\* always, so that mania_scroll_speed, the next entry and user_permissions
\* are read where they were written; the decoded entry holds neither
C17_VersionGatedFields ==
    (ListingCalled /\ WellFormedListing) =>
        /\ out.kind = "ok"
        /\ \A k \in 1..wire.declared :
              /\ out.value.beatmaps[k].size =
                    IF wire.version < 20191106
                    THEN SomeOpt(LittleEndianBits(SampleSize)) ELSE NoneOpt
              /\ out.value.beatmaps[k].disable_video
              /\ out.value.beatmaps[k].mania_scroll_speed = SampleScrollSpeed[1]
              /\ "unused_f32" \notin DOMAIN out.value.beatmaps[k]
              /\ "unused_u32" \notin DOMAIN out.value.beatmaps[k]
        /\ wire.declared = wire.present =>
              /\ out.value.user_permissions = LittleEndianBits(SamplePermissions)
              /\ out.rest = wire.leftover

\* two entries of a listing between the two versions: a size, no unused float
C17_Witness ==
    /\ ListingCalled /\ WellFormedListing
    /\ wire.version = 20140609 /\ wire.declared = 2 /\ wire.present = 2
    /\ wire.leftover = <<0>>
    /\ out.kind = "ok" /\ out.rest = <<0>>
    /\ out.value.beatmaps[2].size = SomeOpt({0, 1, 4, 6})
    /\ out.value.beatmaps[2].mania_scroll_speed = 77
    /\ DOMAIN out.value.beatmaps[2] =
            {EntryFields[n] : n \in 1..Len(EntryFields)}
                \ {"unused_f32", "unused_u32"}

\* a marker byte of an entry that is parsed is wrong
BadMarkerParsed == wire.bad.entry \in 1..wire.declared

\* the number of bytes of the listing before the marker byte that is wrong
MarkerOffset(w) ==
    Len(WriteHeader(w))
        + (Len(WriteEntries(w, 1)) - Len(WriteEntries(w, w.bad.entry)))
        + Len(WriteEntryHead(w, w.bad.entry))
        + (Len(WritePairs(w, w.bad.entry, 1))
              - Len(WritePairs(w, w.bad.entry, w.bad.pair)))
        + (IF w.bad.marker = 2 THEN 5 ELSE 0)

\* C18: with every pair starting with 0x08 and holding 0x0d after its mask
\* the star ratings decode; a pair with another byte in either place makes
\* the listing fail with the Tag error of that pair, whose input starts at
\* the byte that is wrong
C18_PairMarkers ==
    /\ (ListingCalled /\ WellFormedListing) =>
          /\ out.kind = "ok"
          /\ \A k \in 1..wire.declared :
                out.value.beatmaps[k].star_ratings_std =
                    [p \in 1..wire.pairs |-> [mods |-> {6}, rating |-> SampleRating]]
    /\ (ListingCalled /\ BadMarkerParsed) =>
          /\ data[MarkerOffset(wire) + 1] = wire.bad.byte
          /\ out = Err(SubSeq(data, MarkerOffset(wire) + 1, Len(data)), "Tag")

\* the second marker of the pair of the second entry is 0x08
C18_Witness ==
    /\ ListingCalled
    /\ wire.declared = 2
    /\ wire.bad = [entry |-> 2, pair |-> 1, marker |-> 2, byte |-> 8]
    /\ out.kind = "err" /\ out.code = "Tag"
    /\ Head(out.input) = 8
    /\ SubSeq(out.input, 1, 9) = <<8>> \o SampleRating
    /\ Len(out.input) < Len(data) - Len(WriteHeader(wire)) - Len(WriteEntry(wire, 1))

(***************************************************************************)
(* Properties of lifebar_graph and its Display (checked under SpecLifebar). *)
(***************************************************************************)
LifebarCalled == wire.kind = "lifebar" /\ parser = "lifebar_graph"

PointOf(p) == <<p.time.value, p.health.value>>

\* C19: lifebar_graph returns no lifebar for an absent string, a lifebar
\* with zero points for a present empty string, and for a present string of
\* k pairs "time|health," a lifebar of exactly k points, in the order of the
\* text, each holding the time and the health its pair denotes; the bytes
\* after the string are the remaining input.
C19_LifebarPoints ==
    LifebarCalled =>
        /\ out.kind = "ok"
        /\ out.rest = wire.trail
        /\ out.value.some = wire.present
        /\ wire.present =>
            /\ Len(out.value.points) = Len(wire.pairs)
            /\ \A k \in 1..Len(wire.pairs) : out.value.points[k] = PointOf(wire.pairs[k])

\* two pairs of different times and healths, with a leading zero and a
\* fraction, were decoded
C19_Witness ==
    /\ LifebarCalled
    /\ wire.present
    /\ Len(wire.pairs) = MaxPoints
    /\ wire.pairs[1].time.value = <<7>>
    /\ wire.pairs[1].health.text = <<48, 46, 53, 48>>
    /\ wire.pairs[2].time.value # <<7>>
    /\ wire.pairs[2].health.value.negative
    /\ out.kind = "ok"
    /\ Len(out.value.points) = MaxPoints

C19_Absent == LifebarCalled /\ ~wire.present /\ out.kind = "ok" /\ ~out.value.some

C19_Empty ==
    LifebarCalled /\ wire.present /\ wire.pairs = <<>> /\ out.kind = "ok"
    /\ out.value.some /\ out.value.points = <<>>

ToStringCalled == wire.kind = "lifebar" /\ parser = "to_string"

\* C20: the Display form of a decoded lifebar graph is the text it was
\* decoded from: every pair as "time|health," in the original order, the
\* texts of the numbers unchanged.
C20_DisplayRoundTrip == ToStringCalled => out.str = WritePoints(wire.pairs)

\* the Display form of the graph decoded from the pairs of the spec's
\* example, "1676|1," twice, is that text
C20_ExampleRoundTrip ==
    ToStringCalled /\ Len(wire.pairs) = MaxPoints
    /\ (\A k \in 1..Len(wire.pairs) :
            wire.pairs[k].time.text = <<49, 54, 55, 54>> /\ wire.pairs[k].health.text = <<49>>)
    /\ out.str = WritePoints(wire.pairs)

(***************************************************************************)
(* Properties of lifebar_graph on malformed text (checked under            *)
(* SpecLifebarText).                                                       *)
(***************************************************************************)
TextCalled == wire.kind = "lifebar_text" /\ parser = "lifebar_graph"

\* the points of the well-formed pairs in front of the malformed text
PrefixPoints == [k \in 1..Len(wire.pairs) |-> PointOf(wire.pairs[k])]

PrefixDecoded ==
    /\ out.kind = "ok"
    /\ out.rest = wire.trail
    /\ out.value.some
    /\ out.value.points = PrefixPoints

\* C30: lifebar_graph of a present string whose text is not made of
\* well-formed pairs only succeeds: the lifebar holds the points of the
\* longest well-formed prefix of the text, the rest of the text is dropped,
\* and the bytes after the string are the remaining input.
C30_MalformedDropped == TextCalled => PrefixDecoded

\* the part that holds: the same for every malformed text but a health with
\* an exponent mark and no exponent digits, on which lifebar_graph fails
\* although the string was read
C30_DroppedUnlessExponent ==
    TextCalled =>
        IF wire.tail \in ExponentTails
        THEN out.kind = "failure" /\ out.input = wire.trail
        ELSE PrefixDecoded

\* a lifebar string "007|0.50,5|1e," made lifebar_graph fail
C30_FailsOnExponent ==
    /\ TextCalled
    /\ Len(wire.pairs) = 1
    /\ wire.pairs[1].time.value = <<7>>
    /\ wire.tail = NoExponentTail
    /\ osu_string(data, build).kind = "ok"
    /\ out.kind = "failure"

\* two pairs in front of a time of 2^32 were decoded, the rest dropped
C30_PrefixKept ==
    /\ TextCalled
    /\ Len(wire.pairs) = MaxPoints
    /\ wire.tail = WideTimeTail
    /\ out.kind = "ok"
    /\ Len(out.value.points) = MaxPoints

\* a pair behind text that is no pair was dropped with it
C30_PairBehindGarbage ==
    /\ TextCalled
    /\ wire.pairs = <<>>
    /\ wire.tail = GarbageThenPair
    /\ out.kind = "ok"
    /\ out.value.points = <<>>

(***************************************************************************)
(* Properties of the count-prefixed arrays (checked under SpecArrays).      *)
(***************************************************************************)
ArraysCalled ==
    \/ wire.kind = "collections" /\ parser = "collection_listing"
    \/ wire.kind = "scores" /\ parser = "score_listing"

\* an entry or an element that the declared counts make the parser read is
\* cut short, missing or begins with a wrong byte
ElementFails ==
    \/ wire.declared > wire.present
    \/ wire.bad.entry \in 1..wire.declared
    \/ wire.short = 1 /\ wire.present >= 1 /\ wire.declared >= wire.present

\* the first thing that fails is the timestamp of a score record
TimestampRead == wire.bad.what = "time" /\ wire.bad.entry \in 1..wire.declared

ArrayEntries == IF wire.kind = "collections" THEN out.value.collections
                ELSE out.value.beatmap_scores

EntryString(e) == IF wire.kind = "collections" THEN e.name ELSE e.md5

EntryElements(e) ==
    IF wire.kind = "collections" THEN e.beatmap_md5s
    ELSE [j \in 1..Len(e.scores) |-> e.scores[j].beatmap_md5]

\* the entries and their elements are the declared ones, in the order written
DeclaredArrays ==
    /\ Len(ArrayEntries) = wire.declared
    /\ \A k \in 1..wire.declared :
          /\ EntryString(ArrayEntries[k]) = EntryName(k)
          /\ EntryElements(ArrayEntries[k]) = [j \in 1..wire.inner |-> ElementName(k, j)]

\* the arrays of the entries of an osu.db file: the entries, the star
\* ratings of each mode and the timing points
DeclaredListing ==
    /\ Len(out.value.beatmaps) = wire.declared
    /\ \A k \in 1..wire.declared :
          /\ Len(out.value.beatmaps[k].star_ratings_std) = wire.pairs
          /\ Len(out.value.beatmaps[k].star_ratings_taiko) = 0
          /\ Len(out.value.beatmaps[k].timing_points) = 1
          /\ IF wire.version < 20140609
             THEN IsFloatOf(out.value.beatmaps[k].approach_rate,
                            DifficultyBytes(wire.difficulty, k)[1])
             ELSE out.value.beatmaps[k].approach_rate
                      = RawDifficulty(DifficultyBytes(wire.difficulty, k)[1])

IsSuffix(s, t) == Len(s) <= Len(t) /\ s = SubSeq(t, Len(t) - Len(s) + 1, Len(t))

\* what is left of the file from byte k on
From(k) == SubSeq(data, k, Len(data))

\* the parser's result r on the input i: a success leaves a suffix of i that
\* is shorter than i
Advances(i, r) == r.kind = "ok" => (IsSuffix(r.rest, i) /\ Len(r.rest) < Len(i))

\* the element parsers of collection.db and scores.db on the input i
ElementsAdvanceOn(i) ==
    /\ Advances(i, osu_string(i, build))
    /\ Advances(i, collection(i, build))
    /\ Advances(i, score_replay(i, build))
    /\ Advances(i, beatmap_scores(i, build))

\* the byte where entry j of the osu.db file begins
EntryStart(j) ==
    Len(WriteHeader(wire)) + 1
        + SumSeq([e \in 1..(j - 1) |-> Len(WriteEntry(wire, e))])

\* the entry parser on the input i, where entry j of the file begins
EntryAdvancesOn(i, j) ==
    /\ Advances(i, beatmap_entry(LittleEndianBits(SubSeq(data, 1, 4)), i, build))
    /\ beatmap_entry(LittleEndianBits(SubSeq(data, 1, 4)), i, build).kind
           = (IF wire.bad.entry = j THEN "err" ELSE "ok")

\* the parsers of star rating pairs and timing points on the input i
PairsAdvanceOn(i) ==
    /\ Advances(i, star_rating_pair(i))
    /\ Advances(i, timing_point(i))

\* every element parser, from every byte of the file on (the entry parser of
\* an osu.db file where an entry begins)
ElementsAdvance ==
    IF wire.kind = "listing"
    THEN /\ \A k \in 1..(Len(data) + 1) : PairsAdvanceOn(From(k))
         /\ \A j \in 1..wire.present : EntryAdvancesOn(From(EntryStart(j)), j)
    ELSE \A k \in 1..(Len(data) + 1) : ElementsAdvanceOn(From(k))

RECURSIVE SumLen(_, _)
SumLen(entries, k) ==
    IF k > Len(entries) THEN 0
    ELSE 1 + Len(EntryElements(entries[k])) + SumLen(entries, k + 1)

\* the entries and elements of all arrays of the decoded file
Decoded ==
    IF wire.kind = "listing"
    THEN Len(out.value.beatmaps) * (1 + wire.pairs + 1)
    ELSE SumLen(ArrayEntries, 1)

\* C21: a decode of a file of count-prefixed arrays that succeeds holds, for
\* every array, exactly the declared number of elements in the order of the
\* file; when an entry, an element or a field that a declared count makes
\* the parser read fails, the whole call returns an error, which holds no
\* value.
C21_ArraysAllOrNothing ==
    /\ ArraysCalled =>
          /\ out.kind \in {"ok", "err"}
          /\ out.kind = "err" <=> ElementFails
          /\ out.kind = "ok" => DeclaredArrays
          /\ out.kind = "err" => DOMAIN out = {"kind", "input", "code"}
    /\ ListingCalled =>
          /\ out.kind \in {"ok", "err"}
          /\ out.kind = "err" <=> ~WellFormedListing
          /\ out.kind = "ok" => DeclaredListing
          /\ out.kind = "err" => DOMAIN out = {"kind", "input", "code"}

\* what holds of C21: no call succeeds with other than the declared elements
\* and every failure is whole; the call that does not return an error is the
\* one that reads the timestamp that is out of range
C21_NoPartialResult ==
    /\ ArraysCalled =>
          /\ out.kind = "ok" <=> ~ElementFails
          /\ out.kind = "ok" => DeclaredArrays
          /\ out.kind # "ok" => "value" \notin DOMAIN out
          /\ out.kind = "panic" <=> (ElementFails /\ TimestampRead)
    /\ ListingCalled =>
          /\ out.kind \in {"ok", "err"}
          /\ out.kind = "err" <=> ~WellFormedListing
          /\ out.kind = "ok" => DeclaredListing
          /\ out.kind = "err" => DOMAIN out = {"kind", "input", "code"}

\* a scores.db file whose second score record has a timestamp of 2^64 - 1
\* ticks: the call aborts
C21_AbortsOnTimestamp ==
    /\ ArraysCalled /\ wire.kind = "scores"
    /\ wire.declared = 1 /\ wire.present = 1 /\ wire.inner = MaxInner
    /\ wire.bad = [entry |-> 1, slot |-> MaxInner, what |-> "time"]
    /\ out.kind = "panic"

\* a scores.db file of two beatmaps with two scores each was decoded, and a
\* file whose second entry holds a wrong byte in its last element failed
C21_Witness ==
    /\ ArraysCalled /\ wire.kind = "scores"
    /\ wire.declared = MaxArray /\ wire.present = MaxArray /\ wire.inner = MaxInner
    /\ wire.bad = NoBadSlot /\ wire.short = 0
    /\ out.kind = "ok"
    /\ Len(out.value.beatmap_scores) = MaxArray
    /\ Len(out.value.beatmap_scores[MaxArray].scores) = MaxInner

C21_FailsWhole ==
    /\ ArraysCalled /\ wire.kind = "collections"
    /\ wire.declared = MaxArray /\ wire.present = MaxArray /\ wire.inner = MaxInner
    /\ wire.bad = [entry |-> MaxArray, slot |-> MaxInner, what |-> "head"]
    /\ out.kind = "err"

\* C25: a decode call ends, with a result whose remaining input (or error
\* position) is a suffix of the buffer; an element parser that succeeds
\* leaves a shorter suffix of its input, and the elements decoded are never
\* more than the bytes read, whatever the count prefix declares.
C25_CursorAdvances ==
    (ArraysCalled \/ ListingCalled) =>
        /\ out.kind = "ok" =>
              /\ IsSuffix(out.rest, data)
              /\ Decoded <= Len(data) - Len(out.rest)
        /\ out.kind = "err" => IsSuffix(out.input, data)
        /\ ElementsAdvance
        /\ (wire.kind # "listing" /\ wire.declared = HugeCount) => out.kind # "ok"

\* a file that declares 0x7fffffff entries and holds two: the call ends with
\* an error at the end of the buffer
C25_Witness ==
    /\ ArraysCalled /\ wire.kind = "collections"
    /\ wire.declared = HugeCount /\ wire.present = MaxArray /\ wire.inner = MaxInner
    /\ wire.bad = NoBadSlot /\ wire.short = 0
    /\ out.kind = "err" /\ out.input = <<>>

(***************************************************************************)
(* Properties of uleb128 on long encodings (checked under SpecUleb).        *)
(***************************************************************************)
LongCalled == wire.kind = "long" /\ parser = "uleb128"

\* the shift of the last 7-bit group of the encoding
LastShift == 7 * wire.continuation

\* C28: on every byte sequence that holds a byte with the high bit clear,
\* those of ten and more continuation bytes included, uleb128 returns a
\* 64-bit value and the bytes after the encoding, and no group is shifted by
\* 64 or more.
C28_UlebTotal ==
    LongCalled =>
        /\ out.kind = "ok"
        /\ out.rest = wire.trail
        /\ out.value \subseteq 0..63

\* what holds of C28: a release build returns a value for every encoding, a
\* debug build for those of at most nine continuation bytes
C28_TotalBelowShift64 ==
    LongCalled =>
        /\ out.kind \in {"ok", "panic"}
        /\ out.kind = "panic" <=> (build = "debug" /\ LastShift >= 64)
        /\ out.kind = "ok" => (out.rest = wire.trail /\ out.value \subseteq 0..63)

\* ten continuation bytes and a final byte in a debug build: the last group
\* is shifted by 70 and the call aborts
C28_AbortsAtShift70 ==
    /\ LongCalled /\ build = "debug"
    /\ wire.continuation = 10
    /\ out.kind = "panic"

\* the same bytes in a release build: the shift is taken modulo 64, the
\* final byte 0x01 sets bit 6
C28_ReleaseWraps ==
    /\ LongCalled /\ build = "release"
    /\ wire.continuation = 10 /\ wire.byte = 128 /\ wire.final = 1
    /\ out.kind = "ok" /\ out.value = {6}

(***************************************************************************)
(* Properties of score_replay (checked under SpecReplay).                  *)
(***************************************************************************)
ReplayCalled == wire.kind = "replay" /\ parser = "score_replay"

\* the bytes that follow the replay-data length
AfterLength == Drop(data, Len(EncodeHead(wire)) + 4)

\* the declared replay-data length: absent (0xFFFFFFFF), a number below
\* 65536, or more than any buffer holds
Declared ==
    LET l == wire.length
    IN  IF l = <<255, 255, 255, 255>> THEN [kind |-> "absent", n |-> 0]
        ELSE IF l[3] = 0 /\ l[4] = 0 THEN [kind |-> "n", n |-> l[1] + 256 * l[2]]
        ELSE [kind |-> "huge", n |-> 0]

\* bit 23 of the u32 on the wire
WireBit23 == wire.mods[3] >= 128

\* C7: in a decoded score record additional_mod_info is present exactly when
\* the modifier set contains TargetPractice, which is bit 23 of the wire u32;
\* the decoder then consumes the 8 bytes after online_score_id, and otherwise
\* none.
C7_AdditionalModInfo ==
    (ReplayCalled /\ out.kind = "ok") =>
        LET r == out.value
            blob == Declared.n
        IN  /\ r.additional_mod_info.some <=> (23 \in r.mods)
            /\ (23 \in r.mods) <=> WireBit23
            /\ out.rest = Drop(AfterLength, blob + 8 + (IF WireBit23 THEN 8 ELSE 0))
            /\ WireBit23 =>
                  r.additional_mod_info
                      = SomeOpt(SubSeq(AfterLength, blob + 9, blob + 16))

C7_Witness ==
    /\ ReplayCalled
    /\ out.kind = "ok"
    /\ wire.mods = <<8, 0, 128, 0>>
    /\ wire.length = <<2, 0, 0, 0>>
    /\ out.value.additional_mod_info.some
    /\ out.rest = <<179>>

\* the fields before the replay-data length decode
ReachesLength ==
    /\ ReplayCalled
    /\ wire.mode \in 0..3
    /\ wire.ticks # <<255, 255, 255, 255, 255, 255, 255, 255>>

\* C8: a declared replay-data length of 0xFFFFFFFF gives replay_data = None
\* and consumes no blob byte; any other length n gives Some of exactly the
\* next n bytes (a present empty blob for n = 0); n greater than the bytes
\* remaining fails the record.
C8_ReplayData ==
    ReachesLength =>
        LET d == Declared
            id == SubSeq(AfterLength, d.n + 1, d.n + 8)
        IN  /\ out.kind \in {"ok", "err"}
            /\ (d.kind = "huge" \/ d.n > Len(AfterLength)) =>
                    out = Err(AfterLength, "Eof")
            /\ out.kind = "ok" =>
                    /\ out.value.online_score_id = LittleEndianBits(id)
                    /\ d.kind = "absent" => out.value.replay_data = NoneOpt
                    /\ d.kind = "n" =>
                          /\ out.value.replay_data = SomeOpt(First(AfterLength, d.n))
                          /\ out.value.replay_data # NoneOpt
            /\ (d.kind # "huge" /\ Len(AfterLength) >= d.n + 8 + (IF WireBit23 THEN 8 ELSE 0))
                    => out.kind = "ok"

C8_Witness ==
    /\ ReachesLength
    /\ wire.length = <<0, 0, 0, 0>>
    /\ out.kind = "ok"
    /\ out.value.replay_data = SomeOpt(<<>>)
    /\ out.value.lifebar_graph.some
    /\ Len(out.value.lifebar_graph.points) = 1

====
